---- MODULE Spec2Model ----
(***************************************************************************)
(* A model of iroh-net's magicsock connection (hp/magicsock/conn.rs): the  *)
(* virtual socket facade (Conn: close, poll_send, poll_recv), the          *)
(* coordinator task (Actor) with its bounded queues, and the coordinator's *)
(* peer table handlers (network map, discovery, relay reads).              *)
(*                                                                         *)
(* The specifications share the variables:                                 *)
(*   SpecClose, SpecSend, SpecFacade  the facade, the queues, the wakers   *)
(*                and the task lifecycle                                   *)
(*   SpecPeers, SpecDisco, SpecPong   the coordinator's handlers over the  *)
(*                peer table                                               *)
(*   SpecInsert     every event that can add an endpoint to the peer table *)
(*   SpecTransmit   poll_send and the coordinator's send of each batch     *)
(*   SpecEndpoints  the refresh of the local endpoints                     *)
(*   SpecCallMeMaybe  EnqueueCallMeMaybe, deferred or sent over the relay  *)
(*   SpecRebind     rebind_all and the cached local addresses              *)
(*   SpecShutdown   rebinds, receives and close under fair scheduling      *)
(*   SpecIters      TransmitIter, PacketSplitIter and endpoint_sets_equal  *)
(*   SpecSelfSend   the coordinator sending to its own command queue       *)
(*   SpecAssert     discovery packets from any source address over UDP     *)
(*   SpecNetcheck   the refresh with the periodic timer and the netcheck   *)
(*                  report of a send error                                 *)
(*   SpecFallback, SpecDetermine, SpecBind  pick_derp_fallback,            *)
(*                  determine_endpoints and bind applied to their inputs   *)
(***************************************************************************)
EXTENDS Integers, Sequences, FiniteSets, TLC

\* ------------------------------------------------------------------ bounds
\* Capacity of the transmit queue (mpsc::channel(128) in Conn::new), scaled.
NetCap == 2
\* Capacity of the receive queue (flume::bounded(128) in Conn::new), scaled.
RecvCap == 2
\* Capacity of the command queue (mpsc::channel(128) in Conn::new), scaled.
ActorCap == 2
\* Longest batch handed to poll_send.
MaxBatch == 3
\* Number of distinct destinations a batch may name.
NumDests == 2
\* Number of tasks that call close().
NumClosers == 2
\* Number of buffer slots handed to poll_recv.
MaxSlots == 2

\* ------------------------------------------------------------ pure helpers
\* Option<T>: None is the empty tuple, Some(x) the 1-tuple of x.
None == <<>>
Some(x) == <<x>>
IsSome(o) == o # <<>>
IsNone(o) == o = <<>>
Unwrap(o) == o[1]

Dests == 1..NumDests
Closers == 1..NumClosers

RECURSIVE SeqsUpTo(_, _)
\* All sequences over S of length at most n.
SeqsUpTo(S, n) ==
    IF n = 0 THEN {<<>>}
    ELSE LET shorter == SeqsUpTo(S, n - 1)
         IN  shorter \cup {Append(s, x) : s \in {t \in shorter : Len(t) = n - 1}, x \in S}

\* A batch is a sequence of transmits; a transmit is its destination.
Batches == SeqsUpTo(Dests, MaxBatch)

RECURSIVE GroupEnd(_, _, _)
\* TransmitIter::next: the scan for the end of the run that starts at
\* offset, walking while the destination equals the first one's.
GroupEnd(transmits, offset, end) ==
    IF end > Len(transmits) THEN end
    ELSE IF transmits[end] # transmits[offset] THEN end
    ELSE GroupEnd(transmits, offset, end + 1)

\* TransmitIterNext without the scan: every datagram is a group of its own.
TransmitIterNextOne(transmits, offset) ==
    <<SubSeq(transmits, offset, offset), offset + 1>>

\* TransmitIter::next at a 1-based offset: <<group, next offset>>.
TransmitIterNext(transmits, offset) ==
    LET end == GroupEnd(transmits, offset, offset)
    IN  <<SubSeq(transmits, offset, end - 1), end>>

RECURSIVE Flatten(_)
Flatten(groups) ==
    IF groups = <<>> THEN <<>> ELSE Head(groups) \o Flatten(Tail(groups))

IsPrefix(s, t) == Len(s) <= Len(t) /\ SubSeq(t, 1, Len(s)) = s

\* ------------------------------------------------------- bounds (peer table)
\* Number of node public keys in play.
NumKeys == 2
\* Number of distinct UDP socket addresses in play.
NumUdpAddrs == 1
\* Number of relay regions in play.
NumRegions == 1
\* Number of discovery transaction ids in play.
NumTxIds == 1
\* Longest peer list of a network map.
MaxPeers == 2
\* Most mapped addresses generated in one run (caps ADDR_COUNTER, a u64).
MaxAlloc == 3
\* Capacity of the relay worker queue (mpsc::channel(256) in Conn::new), scaled.
DerpCap == 1
\* Most items of one relay frame.
MaxParts == 2

\* The port of every mapped address, QuicMappedAddr::generate.
MAPPED_PORT == 12345

Keys == 1..NumKeys
Regions == 1..NumRegions
TxIds == 1..NumTxIds

\* SocketAddr: an ip and a port.  cfg::DERP_MAGIC_IP is the relay sentinel ip.
DERP_MAGIC_IP == <<127, 3, 3, 40>>
UdpAddrs == {[ip |-> <<192, 0, 2, 1>>, port |-> p] : p \in 1..NumUdpAddrs}
\* SocketAddr::new(DERP_MAGIC_IP, region_id)
DerpAddr(region) == [ip |-> DERP_MAGIC_IP, port |-> region]
DerpAddrs == {DerpAddr(r) : r \in Regions}
SocketAddrs == UdpAddrs \cup DerpAddrs

\* --------------------------------------------------------- finite maps
EmptyMap == [x \in {} |-> None]
MapPut(m, k, v) == [x \in DOMAIN m \cup {k} |-> IF x = k THEN v ELSE m[x]]
MapDel(m, ks) == [x \in DOMAIN m \ ks |-> m[x]]

\* ----------------------------------------------------- mapped addresses
\* QuicMappedAddr::generate with the counter value it fetched: the ULA
\* prefix 0xfd, the global id and the subnet are constants, the last eight
\* bytes are the counter big-endian, the port is 12345.
MappedAddrOf(counter) ==
    [ip |-> <<253, 21, 7, 10, 81, 11, 0, 0, counter>>, port |-> MAPPED_PORT]

\* generate with the fetch_add lost: the counter stays where it was.
generate_same(counter) == <<MappedAddrOf(counter), counter>>

\* QuicMappedAddr::generate: <<address, ADDR_COUNTER after fetch_add(1)>>.
generate(counter) == <<MappedAddrOf(counter), counter + 1>>

\* ------------------------------------------------------------- peer table
\* Endpoint::new (endpoint.rs): the record of one remote peer.  Its mapped
\* address is generated at creation and never changes.  endpoint_state maps
\* each candidate UDP/relay address to the transaction id of the last Ping
\* received from it (None when the address is only known from the network
\* map or from a CallMeMaybe); sent_ping maps the transaction id of each
\* outstanding Ping to the address it was sent to.
NewEndpoint(id, public_key, derp_addr, mapped) ==
    [id |-> id, public_key |-> public_key, quic_mapped_addr |-> mapped,
     derp_addr |-> derp_addr, endpoint_state |-> EmptyMap, sent_ping |-> EmptyMap]

\* PeerMap::default
EmptyPeerMap ==
    [by_id |-> EmptyMap, by_node_key |-> EmptyMap, by_ip_port |-> EmptyMap,
     by_quic_mapped_addr |-> EmptyMap, next_id |-> 0]

\* PeerMap::node_count
node_count(pm) == Cardinality(DOMAIN pm.by_id)

\* PeerMap::endpoint_for_node_key: the endpoint's id, or None.
endpoint_for_node_key(pm, nk) ==
    IF nk \in DOMAIN pm.by_node_key /\ pm.by_node_key[nk] \in DOMAIN pm.by_id
    THEN Some(pm.by_node_key[nk]) ELSE None

\* PeerMap::endpoint_for_ip_port: the endpoint's id, or None.
endpoint_for_ip_port(pm, ipp) ==
    IF ipp \in DOMAIN pm.by_ip_port /\ pm.by_ip_port[ipp] \in DOMAIN pm.by_id
    THEN Some(pm.by_ip_port[ipp]) ELSE None

\* PeerMap::insert_endpoint with the mapped address Endpoint::new generated:
\* the record is stored under the next id and indexed by key and by mapped
\* address.
insert_endpoint(pm, public_key, derp_addr, mapped) ==
    LET id == pm.next_id
    IN  [pm EXCEPT !.next_id = id + 1,
                   !.by_quic_mapped_addr = MapPut(@, mapped, id),
                   !.by_node_key = MapPut(@, public_key, id),
                   !.by_id = MapPut(@, id, NewEndpoint(id, public_key, derp_addr, mapped))]

\* PeerMap::set_endpoint_for_ip_port
set_endpoint_for_ip_port(pm, ipp, id) ==
    [pm EXCEPT !.by_ip_port = MapPut(@, ipp, id)]

\* PeerMap::set_node_key_for_ip_port: later lookups by ipp return the
\* endpoint a lookup by nk returns.
set_node_key_for_ip_port(pm, ipp, nk) ==
    LET dropped == [pm EXCEPT !.by_ip_port = MapDel(@, {ipp})]
    IN  IF nk \in DOMAIN pm.by_node_key
        THEN [dropped EXCEPT !.by_ip_port = MapPut(@, ipp, pm.by_node_key[nk])]
        ELSE dropped

\* PeerMap::delete_endpoint: the record and every index entry that names it.
delete_endpoint(pm, id) ==
    IF id \notin DOMAIN pm.by_id THEN pm
    ELSE LET ep == pm.by_id[id]
         IN  [pm EXCEPT !.by_id = MapDel(@, {id}),
                        !.by_quic_mapped_addr = MapDel(@, {ep.quic_mapped_addr}),
                        !.by_node_key = MapDel(@, {ep.public_key}),
                        !.by_ip_port = MapDel(@, {a \in DOMAIN @ : @[a] = id})]

\* The mapped addresses of the endpoints in the table.
MappedAddrsOf(pm) == {pm.by_id[i].quic_mapped_addr : i \in DOMAIN pm.by_id}
\* The public keys of the endpoints in the table.
KeysOf(pm) == {pm.by_id[i].public_key : i \in DOMAIN pm.by_id}

\* The coordinator state a handler reads and writes, as one record:
\*   pm      Actor.peer_map
\*   ctr     ADDR_COUNTER
\*   di      Actor.disco_info: key -> DiscoInfo
\*   dq      number of messages waiting in the relay worker queue
\*   sent    what the handler handed to a UDP socket or to the relay worker
\*   probes  the <<endpoint id, address>> pairs the handler asked to ping
\*   inc     the metrics the handler incremented
\*   derived the keys the handler computed a shared secret for
\*   created the mapped addresses the handler generated, in order
\*   ponged  the <<address, endpoint id>> pairs the handler indexed because a
\*           Pong matched an outstanding Ping
CoordState(pm, ctr, di, dq) ==
    [pm |-> pm, ctr |-> ctr, di |-> di, dq |-> dq, derp_open |-> TRUE,
     sent |-> <<>>, probes |-> {}, inc |-> {}, derived |-> <<>>, created |-> <<>>,
     ponged |-> {}]

\* PeerMap::insert_endpoint(EndpointOptions {..}) as the handlers call it:
\* Endpoint::new generates the mapped address of the new record.
create_endpoint(st, public_key, derp_addr) ==
    LET g == generate(st.ctr)
    IN  [st EXCEPT !.pm = insert_endpoint(@, public_key, derp_addr, g[1]),
                   !.ctr = g[2],
                   !.created = Append(@, g[1])]

\* inc!(metric)
Inc(st, metric) == [st EXCEPT !.inc = @ \cup {metric}]


\* ------------------------------------------------------------ network map
\* cfg::Node: a peer named by the network map, with its key, the UDP
\* addresses it advertises and its relay address.
Nodes ==
    [key : Keys, endpoints : {<<a>> : a \in UdpAddrs}, derp : {Some(a) : a \in DerpAddrs}]
\* netmap::NetworkMap: its peer list.
NetworkMaps == [peers : SeqsUpTo(Nodes, MaxPeers)]

RECURSIVE SetEndpointsForIpPorts(_, _, _)
\* The loop of set_network_map over n.endpoints.
SetEndpointsForIpPorts(pm, endpoints, id) ==
    IF endpoints = <<>> THEN pm
    ELSE SetEndpointsForIpPorts(set_endpoint_for_ip_port(pm, Head(endpoints), id),
                                Tail(endpoints), id)

\* Endpoint::update_from_node (endpoint.rs): the relay address of the node
\* is taken over and every address the node advertises becomes a candidate.
update_from_node(ep, n) ==
    [ep EXCEPT !.derp_addr = n.derp,
               !.endpoint_state =
                   [a \in DOMAIN @ \cup {n.endpoints[i] : i \in DOMAIN n.endpoints} |->
                       IF a \in DOMAIN @ THEN @[a] ELSE None]]

RECURSIVE InsertMissingEndpoints(_, _)
\* The first loop of set_network_map: an endpoint is inserted for every
\* named key that has none, and every named endpoint is updated from its
\* node and indexed under the addresses the node advertises.
InsertMissingEndpoints(st, peers) ==
    IF peers = <<>> THEN st
    ELSE LET n == Head(peers)
             st1 == IF IsNone(endpoint_for_node_key(st.pm, n.key))
                    THEN create_endpoint(st, n.key, n.derp) ELSE st
             id == Unwrap(endpoint_for_node_key(st1.pm, n.key))
             pm2 == [st1.pm EXCEPT !.by_id[id] = update_from_node(@, n)]
             pm3 == SetEndpointsForIpPorts(pm2, n.endpoints, id)
         IN  InsertMissingEndpoints([st1 EXCEPT !.pm = pm3], Tail(peers))

RECURSIVE DeleteEndpoints(_, _)
DeleteEndpoints(pm, ids) ==
    IF ids = {} THEN pm
    ELSE LET id == CHOOSE i \in ids : TRUE
         IN  DeleteEndpoints(delete_endpoint(pm, id), ids \ {id})

\* DeleteMoribund with the test of the key inverted: the endpoints the list
\* names are the ones deleted.
DeleteMoribundNamed(pm, peers) ==
    IF node_count(pm) # Len(peers)
    THEN LET keep == {peers[i].key : i \in DOMAIN peers}
             to_delete == {id \in DOMAIN pm.by_id : pm.by_id[id].public_key \in keep}
         IN  DeleteEndpoints(pm, to_delete)
    ELSE pm

\* The second half of set_network_map: when the table holds another number
\* of endpoints than the peer list has entries, every endpoint whose key the
\* list does not name is deleted.
DeleteMoribund(pm, peers) ==
    IF node_count(pm) # Len(peers)
    THEN LET keep == {peers[i].key : i \in DOMAIN peers}
             to_delete == {id \in DOMAIN pm.by_id : pm.by_id[id].public_key \notin keep}
         IN  DeleteEndpoints(pm, to_delete)
    ELSE pm

\* SamePeers with the comparison lost: set_network_map never returns early.
SamePeersNever(prior_netmap, nm) == FALSE

\* Whether set_network_map returns early because the peer list is the one
\* of the network map stored before.
SamePeers(prior_netmap, nm) ==
    IsSome(prior_netmap) /\ Unwrap(prior_netmap).peers = nm.peers

\* Actor::set_network_map: <<state, net_map>> after it.
set_network_map(st, prior_netmap, is_closed, nm) ==
    IF is_closed THEN <<st, prior_netmap>>
    ELSE IF SamePeers(prior_netmap, nm) THEN <<st, Some(nm)>>
    ELSE LET st1 == InsertMissingEndpoints(st, nm.peers)
         IN  <<[st1 EXCEPT !.pm = DeleteMoribund(@, nm.peers)], Some(nm)>>

\* -------------------------------------------------------------- discovery
\* disco::Message
Ping(tx_id) == [kind |-> "ping", tx_id |-> tx_id, src |-> None, my_number |-> {}]
Pong(tx_id, src) == [kind |-> "pong", tx_id |-> tx_id, src |-> Some(src), my_number |-> {}]
CallMeMaybe(my_number) ==
    [kind |-> "call_me_maybe", tx_id |-> 0, src |-> None, my_number |-> my_number]
\* The messages that arrive: the src a Pong reports is our own address as
\* the peer saw it, which no handler of the coordinator reads.
OwnAddr == [ip |-> <<198, 51, 100, 7>>, port |-> 1]
DiscoMessages ==
    {Ping(t) : t \in TxIds} \cup {Pong(t, OwnAddr) : t \in TxIds}
        \cup {CallMeMaybe({a}) : a \in UdpAddrs}

\* What a sealed box turns out to hold: it cannot be opened with the shared
\* key of its sender, it opens to bytes that do not parse, or it opens to a
\* message.
BadKeyBox == [opens |-> FALSE, parses |-> FALSE, msg |-> Ping(0)]
BadParseBox == [opens |-> TRUE, parses |-> FALSE, msg |-> Ping(0)]
GoodBox(msg) == [opens |-> TRUE, parses |-> TRUE, msg |-> msg]
SealedBoxes == {BadKeyBox, BadParseBox} \cup {GoodBox(m) : m \in DiscoMessages}

\* get_disco_info deriving the shared key at every call.
get_disco_info_rederive(st, k) ==
    [st EXCEPT !.di = MapPut(@, k, [node_key |-> k, shared_key |-> <<"shared", k>>]),
               !.derived = Append(@, k)]

\* get_disco_info: the DiscoInfo of k, created with a freshly derived shared
\* key when there is none.
get_disco_info(st, k) ==
    IF k \in DOMAIN st.di THEN st
    ELSE [st EXCEPT !.di = MapPut(@, k, [node_key |-> k, shared_key |-> <<"shared", k>>]),
                    !.derived = Append(@, k)]

\* send_derp_actor with a send that always finds room in the queue.
send_derp_actor_unbounded(st, msg) ==
    [st EXCEPT !.dq = @ + 1, !.sent = Append(@, [msg EXCEPT !.ok = TRUE])]

\* Actor::send_derp_actor: a try_send to the relay worker; the message is
\* dropped when the worker has gone (TrySendError::Closed) and when its
\* queue is full (TrySendError::Full).
send_derp_actor(st, msg) ==
    IF st.derp_open /\ st.dq < DerpCap
    THEN [st EXCEPT !.dq = @ + 1, !.sent = Append(@, [msg EXCEPT !.ok = TRUE])]
    ELSE [st EXCEPT !.sent = Append(@, [msg EXCEPT !.ok = FALSE])]

\* Actor::send_derp
send_derp(st, port, peer, contents) ==
    send_derp_actor(st, [via |-> "derp", dst |-> DerpAddr(port), key |-> Some(peer),
                         msg |-> contents, ok |-> TRUE])

\* Actor::send_raw: a write to the UDP socket of the address family, which
\* succeeds or fails (udp_ok).
send_raw(st, addr, contents, udp_ok) ==
    [st EXCEPT !.sent = Append(@, [via |-> "udp", dst |-> addr, key |-> None,
                                   msg |-> contents, ok |-> udp_ok])]

\* A send_addr that writes every packet to the UDP socket.
send_addr_udp(st, addr, pub_key, pkt, udp_ok) ==
    send_raw(st, addr, pkt, udp_ok)

\* Actor::send_addr: to UDP or to the relay, depending on the ip.
send_addr(st, addr, pub_key, pkt, udp_ok) ==
    IF addr.ip # DERP_MAGIC_IP THEN send_raw(st, addr, pkt, udp_ok)
    ELSE IF IsNone(pub_key) THEN st
    ELSE send_derp(st, addr.port, Unwrap(pub_key), pkt)

\* Actor::send_disco_message
send_disco_message(st, dst, dst_key, msg, is_closed, udp_ok) ==
    IF is_closed THEN st
    ELSE LET st1 == get_disco_info(st, dst_key)
             st2 == Inc(st1, IF dst.ip = DERP_MAGIC_IP THEN "SendDiscoDerp" ELSE "SendDiscoUdp")
         IN  send_addr(st2, dst, Some(dst_key), msg, udp_ok)

\* Endpoint::add_candidate_endpoint (endpoint.rs): <<endpoint, duplicate>>;
\* a Ping is a duplicate when its transaction id is the one last received
\* from the same address.
add_candidate_endpoint(ep, src, tx_id) ==
    IF src \in DOMAIN ep.endpoint_state /\ ep.endpoint_state[src] = Some(tx_id)
    THEN <<ep, TRUE>>
    ELSE <<[ep EXCEPT !.endpoint_state = MapPut(@, src, Some(tx_id))], FALSE>>

\* handle_ping answering only the peers it has an endpoint for.
handle_ping_known_only(st, dm, sender, src, derp_node_src, is_closed, udp_ok) ==
    LET st2 == get_disco_info(st, sender)
        dst_key == IF IsSome(derp_node_src) THEN Unwrap(derp_node_src) ELSE sender
        found == endpoint_for_node_key(st2.pm, dst_key)
        added == add_candidate_endpoint(st2.pm.by_id[Unwrap(found)], src, dm.tx_id)
    IN  IF IsNone(found) \/ added[2]
        THEN st2
        ELSE LET st3 == [st2 EXCEPT !.pm = set_node_key_for_ip_port(
                                               [@ EXCEPT !.by_id[Unwrap(found)] = added[1]],
                                               src, dst_key)]
             IN  send_disco_message(st3, src, dst_key, Pong(dm.tx_id, src), is_closed, udp_ok)

\* handle_ping answering the duplicates too.
handle_ping_answer_all(st, dm, sender, src, derp_node_src, is_closed, udp_ok) ==
    LET st2 == get_disco_info(st, sender)
        dst_key == IF IsSome(derp_node_src) THEN Unwrap(derp_node_src) ELSE sender
        found == endpoint_for_node_key(st2.pm, dst_key)
        added == add_candidate_endpoint(st2.pm.by_id[Unwrap(found)], src, dm.tx_id)
        st3 == IF IsSome(found)
               THEN [st2 EXCEPT !.pm = set_node_key_for_ip_port(
                                           [@ EXCEPT !.by_id[Unwrap(found)] = added[1]],
                                           src, dst_key)]
               ELSE st2
    IN  send_disco_message(st3, src, dst_key, Pong(dm.tx_id, src), is_closed, udp_ok)

\* Actor::handle_ping
handle_ping(st, dm, sender, src, derp_node_src, is_closed, udp_ok) ==
    LET st2 == get_disco_info(st, sender)
        dst_key == IF IsSome(derp_node_src) THEN Unwrap(derp_node_src) ELSE sender
        found == endpoint_for_node_key(st2.pm, dst_key)
        added == add_candidate_endpoint(st2.pm.by_id[Unwrap(found)], src, dm.tx_id)
    IN  IF IsSome(found) /\ added[2]
        THEN st2
        ELSE LET st3 == IF IsSome(found)
                        THEN [st2 EXCEPT !.pm = set_node_key_for_ip_port(
                                                    [@ EXCEPT !.by_id[Unwrap(found)] = added[1]],
                                                    src, dst_key)]
                        ELSE st2
             IN  send_disco_message(st3, src, dst_key, Pong(dm.tx_id, src), is_closed, udp_ok)

\* Endpoint::handle_pong_conn (endpoint.rs): <<endpoint, insert>>; a Pong
\* whose transaction id is that of an outstanding Ping settles the Ping and
\* asks for the (ip, port) index to record the Pong's source.
handle_pong_conn(ep, pong, src) ==
    IF pong.tx_id \in DOMAIN ep.sent_ping
    THEN <<[ep EXCEPT !.sent_ping = MapDel(@, {pong.tx_id}),
                      !.endpoint_state = IF src \in DOMAIN @ THEN @ ELSE MapPut(@, src, None)],
           Some(<<src, ep.public_key>>)>>
    ELSE <<ep, None>>

\* Endpoint::handle_call_me_maybe (endpoint.rs): every listed address
\* becomes a candidate.
handle_call_me_maybe(ep, cm) ==
    [ep EXCEPT !.endpoint_state =
        [a \in DOMAIN @ \cup cm.my_number |-> IF a \in DOMAIN @ THEN @[a] ELSE None]]

\* HandleCallMeMaybe without the test of the arrival path: a CallMeMaybe
\* that has no relay source key is applied to the endpoint indexed under
\* its source address.
HandleCallMeMaybeAnyPath(st, cm, src, derp_node_src) ==
    LET st1 == Inc(st, "RecvDiscoCallMeMaybe")
        found == IF IsSome(derp_node_src)
                 THEN endpoint_for_node_key(st1.pm, Unwrap(derp_node_src))
                 ELSE endpoint_for_ip_port(st1.pm, src)
    IN  IF IsNone(found) THEN Inc(st1, "RecvDiscoCallMeMaybeBadDisco")
        ELSE [st1 EXCEPT !.pm.by_id[Unwrap(found)] = handle_call_me_maybe(@, cm),
                         !.probes = @ \cup {<<Unwrap(found), a>> : a \in cm.my_number}]

\* The match on the parsed message at the end of handle_disco_message for a
\* CallMeMaybe.
HandleCallMeMaybe(st, cm, src, derp_node_src) ==
    LET st1 == Inc(st, "RecvDiscoCallMeMaybe")
    IN  IF src.ip # DERP_MAGIC_IP \/ IsNone(derp_node_src) THEN st1
        ELSE LET found == endpoint_for_node_key(st1.pm, Unwrap(derp_node_src))
             IN  IF IsNone(found) THEN Inc(st1, "RecvDiscoCallMeMaybeBadDisco")
                 ELSE [st1 EXCEPT !.pm.by_id[Unwrap(found)] = handle_call_me_maybe(@, cm),
                                  !.probes = @ \cup {<<Unwrap(found), a>> : a \in cm.my_number}]

\* HandlePong without the update of the (ip, port) index: the Pong settles
\* the outstanding Ping and nothing else.
HandlePongNoIndex(st, pong, sender, src) ==
    LET st1 == Inc(st, "RecvDiscoPong")
        found == endpoint_for_node_key(st1.pm, sender)
        res == handle_pong_conn(st1.pm.by_id[Unwrap(found)], pong, src)
    IN  IF IsNone(found) THEN st1
        ELSE [st1 EXCEPT !.pm.by_id[Unwrap(found)] = res[1]]

\* The match arm of handle_disco_message for a Pong.
HandlePong(st, pong, sender, src) ==
    LET st1 == Inc(st, "RecvDiscoPong")
        found == endpoint_for_node_key(st1.pm, sender)
        res == handle_pong_conn(st1.pm.by_id[Unwrap(found)], pong, src)
    IN  IF IsNone(found) THEN st1
        ELSE LET pm1 == [st1.pm EXCEPT !.by_id[Unwrap(found)] = res[1]]
             IN  IF IsSome(res[2])
                 THEN [st1 EXCEPT !.pm = set_node_key_for_ip_port(pm1, Unwrap(res[2])[1],
                                                                  Unwrap(res[2])[2]),
                                  !.ponged = @ \cup {<<Unwrap(res[2])[1], Unwrap(found)>>}]
                 ELSE [st1 EXCEPT !.pm = pm1]

\* Whether handle_disco_message takes the sender for unknown.
UnknownSender(pm, sender, src) ==
    IsNone(endpoint_for_node_key(pm, sender)) /\ IsNone(endpoint_for_ip_port(pm, src))

\* The Ping arm inserting an endpoint for every sender, known or not.
HandlePingArmAlways(st, ping, sender, src, derp_node_src, unknown_sender, is_closed, udp_ok) ==
    LET st1 == Inc(st, "RecvDiscoPing")
        st2 == create_endpoint(st1, sender,
                               IF src.ip = DERP_MAGIC_IP THEN Some(src) ELSE None)
    IN  handle_ping(st2, ping, sender, src, derp_node_src, is_closed, udp_ok)

\* The match arm of handle_disco_message for a Ping.
HandlePingArm(st, ping, sender, src, derp_node_src, unknown_sender, is_closed, udp_ok) ==
    LET st1 == Inc(st, "RecvDiscoPing")
        st2 == IF unknown_sender
               THEN create_endpoint(st1, sender,
                                    IF src.ip = DERP_MAGIC_IP THEN Some(src) ELSE None)
               ELSE st1
    IN  handle_ping(st2, ping, sender, src, derp_node_src, is_closed, udp_ok)

\* Actor::handle_disco_message
\* handle_disco_message without the test of the parse result.
handle_disco_message_unparsed(st, source, sealed_box, src, derp_node_src, is_closed, udp_ok) ==
    IF is_closed THEN st
    ELSE LET sender == source
             unknown_sender == UnknownSender(st.pm, sender, src)
             st1 == get_disco_info(st, sender)
         IN  IF ~sealed_box.opens THEN Inc(st1, "RecvDiscoBadKey")
             ELSE LET dm == sealed_box.msg
                      st2 == Inc(st1, IF src.ip = DERP_MAGIC_IP THEN "RecvDiscoDerp"
                                      ELSE "RecvDiscoUdp")
                  IN  CASE dm.kind = "ping" ->
                             HandlePingArm(st2, dm, sender, src, derp_node_src,
                                           unknown_sender, is_closed, udp_ok)
                        [] dm.kind = "pong" -> HandlePong(st2, dm, sender, src)
                        [] OTHER -> HandleCallMeMaybe(st2, dm, src, derp_node_src)

handle_disco_message(st, source, sealed_box, src, derp_node_src, is_closed, udp_ok) ==
    IF is_closed THEN st
    ELSE LET sender == source
             unknown_sender == UnknownSender(st.pm, sender, src)
             st1 == get_disco_info(st, sender)
         IN  IF ~sealed_box.opens THEN Inc(st1, "RecvDiscoBadKey")
             ELSE IF ~sealed_box.parses THEN Inc(st1, "RecvDiscoBadParse")
             ELSE LET dm == sealed_box.msg
                      st2 == Inc(st1, IF src.ip = DERP_MAGIC_IP THEN "RecvDiscoDerp"
                                      ELSE "RecvDiscoUdp")
                  IN  CASE dm.kind = "ping" ->
                             HandlePingArm(st2, dm, sender, src, derp_node_src,
                                           unknown_sender, is_closed, udp_ok)
                        [] dm.kind = "pong" -> HandlePong(st2, dm, sender, src)
                        [] OTHER -> HandleCallMeMaybe(st2, dm, src, derp_node_src)

\* ------------------------------------------------------------ transmit path
\* The mapped address a transmit names as its destination.
DestAddr(d) == MappedAddrOf(d - 1)

\* PeerMap::endpoint_for_quic_mapped_addr_mut (endpoint.rs)
endpoint_for_quic_mapped_addr(pm, addr) ==
    IF addr \in DOMAIN pm.by_quic_mapped_addr THEN Some(pm.by_quic_mapped_addr[addr])
    ELSE None

\* Endpoint::get_send_addrs (endpoint.rs): the paths the endpoint selects,
\* Ok((udp_addr, derp_addr)) with either present or not, or an error.
SendAddrsErr == [ok |-> FALSE, udp_addr |-> None, derp_addr |-> None]
SendAddrs ==
    {SendAddrsErr} \cup
        [ok : {TRUE}, udp_addr : {None} \cup {Some(a) : a \in UdpAddrs},
         derp_addr : {None} \cup {Some(a) : a \in DerpAddrs}]

\* The datagrams of a batch as they are handed to a socket or to the relay.
Contents(transmits) == [kind |-> "transmits", len |-> Len(transmits)]

\* send_network giving up on the relay when the UDP send failed.
send_network_relay_after_udp(st, transmits, send_addrs, udp_ok) ==
    IF transmits = <<>> THEN st
    ELSE LET found == endpoint_for_quic_mapped_addr(st.pm, DestAddr(transmits[1]))
         IN  IF IsNone(found) \/ ~send_addrs.ok THEN st
             ELSE LET public_key == st.pm.by_id[Unwrap(found)].public_key
                      st1 == IF IsSome(send_addrs.udp_addr)
                             THEN send_raw(st, Unwrap(send_addrs.udp_addr),
                                           Contents(transmits), udp_ok)
                             ELSE st
                  IN  IF IsSome(send_addrs.derp_addr)
                         /\ (IsNone(send_addrs.udp_addr) \/ udp_ok)
                      THEN send_derp(st1, Unwrap(send_addrs.derp_addr).port, public_key,
                                     Contents(transmits))
                      ELSE st1

\* Actor::send_network: the batch goes to the UDP address and then to the
\* relay region, whichever of them the endpoint selected; without an
\* endpoint for the destination, or without a path, it goes nowhere.
send_network(st, transmits, send_addrs, udp_ok) ==
    IF transmits = <<>> THEN st
    ELSE LET found == endpoint_for_quic_mapped_addr(st.pm, DestAddr(transmits[1]))
         IN  IF IsNone(found) \/ ~send_addrs.ok THEN st
             ELSE LET public_key == st.pm.by_id[Unwrap(found)].public_key
                      st1 == IF IsSome(send_addrs.udp_addr)
                             THEN send_raw(st, Unwrap(send_addrs.udp_addr),
                                           Contents(transmits), udp_ok)
                             ELSE st
                  IN  IF IsSome(send_addrs.derp_addr)
                      THEN send_derp(st1, Unwrap(send_addrs.derp_addr).port, public_key,
                                     Contents(transmits))
                      ELSE st1

\* ------------------------------------------------------------ receive path
\* NetworkReadResult: Ok with the remote address of its meta and its
\* source, or the Error sentinel.
ReadOk(addr, source) == [ok |-> TRUE, addr |-> Some(addr), source |-> source]
ReadError == [ok |-> FALSE, addr |-> None, source |-> "Error"]

\* One item PacketSplitIter yields from a relay frame: an opaque datagram, a
\* discovery packet (disco::source_and_box finds a sender key and a sealed
\* box), or the UnexpectedEof error that ends a truncated frame.
DataPart == [t |-> "data", source |-> 0, sealed_box |-> BadKeyBox]
EofPart == [t |-> "eof", source |-> 0, sealed_box |-> BadKeyBox]
DiscoPart(source, sealed_box) == [t |-> "disco", source |-> source, sealed_box |-> sealed_box]
OkParts == {DataPart} \cup {DiscoPart(k, b) : k \in Keys, b \in SealedBoxes}
\* The item sequences of a frame: complete items, then at most one error;
\* at most one item of a frame is a discovery packet.
PartSeqs ==
    LET complete == {s \in SeqsUpTo(OkParts, MaxParts) :
                        Cardinality({i \in DOMAIN s : s[i].t = "disco"}) <= 1}
    IN  complete \cup {Append(s, EofPart) : s \in {c \in complete : Len(c) < MaxParts}}
\* DerpReadResult
DerpReadResults == [region_id : Regions, src : Keys, parts : PartSeqs]

\* receive_ip with the rewrite lost: the meta keeps the real source address.
receive_ip_unmapped(pm, meta_addr) ==
    IF IsNone(endpoint_for_ip_port(pm, meta_addr)) THEN None ELSE Some(meta_addr)

\* Actor::receive_ip: the remote address of the meta after the rewrite, or
\* None when no endpoint is indexed under the source address and the
\* datagram is skipped.
receive_ip(pm, meta_addr) ==
    LET found == endpoint_for_ip_port(pm, meta_addr)
    IN  IF IsNone(found) THEN None
        ELSE Some(pm.by_id[Unwrap(found)].quic_mapped_addr)

RECURSIVE ProcessParts(_, _, _, _, _, _)
\* The loop of process_derp_read_result over the parts: <<state, out>>.
ProcessParts(st, parts, ipp, src, ep_quic_mapped_addr, is_closed) ==
    IF parts = <<>> THEN <<st, <<>>>>
    ELSE LET part == Head(parts)
             st1 == IF part.t = "disco"
                    THEN handle_disco_message(st, part.source, part.sealed_box, ipp,
                                              Some(src), is_closed, TRUE)
                    ELSE st
             rest == ProcessParts(st1, Tail(parts), ipp, src, ep_quic_mapped_addr,
                                  is_closed)
         IN  CASE part.t = "disco" -> rest
               [] part.t = "data" ->
                      <<rest[1], <<ReadOk(ep_quic_mapped_addr, "Derp")>> \o rest[2]>>
               [] OTHER -> <<rest[1], <<ReadError>> \o rest[2]>>

\* Actor::process_derp_read_result: <<state, passthroughs>>.
process_derp_read_result(st, dm, is_closed) ==
    IF dm.parts = <<>> THEN <<st, <<>>>>
    ELSE LET ipp == DerpAddr(dm.region_id)
             found == endpoint_for_node_key(st.pm, dm.src)
             inserted == create_endpoint(st, dm.src, Some(ipp))
             st1 == IF IsSome(found) THEN st
                    ELSE [inserted EXCEPT !.pm = set_endpoint_for_ip_port(@, ipp,
                                                                          st.pm.next_id)]
             ep_quic_mapped_addr ==
                 st1.pm.by_id[Unwrap(endpoint_for_node_key(st1.pm, dm.src))].quic_mapped_addr
         IN  ProcessParts(st1, dm.parts, ipp, dm.src, ep_quic_mapped_addr, is_closed)

\* ------------------------------------------------------- local endpoints
\* Number of distinct local endpoints (cfg::Endpoint) in play.
NumEndpoints == 2
\* Longest endpoint list determine_endpoints returns.
MaxEndpoints == 2

\* Most calls of re_stun in one run.
MaxReStuns == 3
\* closures kept and tasks spawned at one time
MaxSpawned == 2
\* regions of a relay map, and calls of pick_derp_fallback
MaxRegionIds == 2
NumMapRegions == 3
MaxPicks == 2
\* ports of the public addresses, and values of the preferred port above 0
NumPublicPorts == 2
NumPreferredPorts == 3
\* u16::MAX, and how many of the lowest and of the highest ports bind is
\* called with
U16Max == 65535
NumLowPorts == 63
NumHighPorts == 63

\* The reasons re_stun is called with.
Whys == {"periodic", "refresh-for-peering"}

\* cfg::Endpoint values.
LocalEndpoints == 1..NumEndpoints
\* determine_endpoints adds an address once: a list names no entry twice.
EndpointLists ==
    {l \in SeqsUpTo(LocalEndpoints, MaxEndpoints) :
        \A i, j \in DOMAIN l : i # j => l[i] # l[j]}
\* What determine_endpoints returns: Ok(endpoints) or Err.
DetermineOk(endpoints) == [ok |-> TRUE, endpoints |-> endpoints]
DetermineErr == [ok |-> FALSE, endpoints |-> <<>>]
DetermineResults == {DetermineErr} \cup {DetermineOk(l) : l \in EndpointLists}

\* What update_net_info learns in a refresh: a report with its
\* ipv4_can_send.  A refresh without a report (None: no relay map, or
\* netcheck failed or timed out) leaves no_v4_send as a report repeating
\* the last one does.
Reports == {Some(TRUE), Some(FALSE)}

\* endpoint_sets_equal with the fast path only: lists are equal when they
\* are both empty or agree position by position.
endpoint_sets_equal_ordered(xs, ys) == xs = ys

\* endpoint_sets_equal: both lists empty, or of one length and equal
\* position by position, or every entry marked by both lists (bit 1 for
\* xs, bit 2 for ys) in the map over their entries.
endpoint_sets_equal(xs, ys) ==
    IF xs = <<>> /\ ys = <<>> THEN TRUE
    ELSE IF Len(xs) = Len(ys) /\ \A i \in DOMAIN xs : xs[i] = ys[i] THEN TRUE
    ELSE LET inx == {xs[i] : i \in DOMAIN xs}
             iny == {ys[i] : i \in DOMAIN ys}
             m == [e \in inx \cup iny |->
                      (IF e \in inx THEN 1 ELSE 0) + (IF e \in iny THEN 2 ELSE 0)]
         IN  \A e \in DOMAIN m : m[e] = 3

\* Actor::set_endpoints: <<last_endpoints after it, whether they changed>>.
set_endpoints(last, endpoints) ==
    IF endpoint_sets_equal(endpoints, last) THEN <<last, FALSE>>
    ELSE <<endpoints, TRUE>>

\* ------------------------------------------------------- local addresses
\* Number of local ports a socket may be bound to.
NumPorts == 2
\* Number of tasks that call rebind_all().
NumRebinders == 2
\* Most calls of rebind_all() by one task.
MaxRebinds == 2

LocalPorts == 1..NumPorts
Rebinders == 1..NumRebinders
\* The local addresses of the IPv4 socket and of the IPv6 socket: an IPv4
\* address is four octets, an IPv6 address eight 16-bit groups.
V4Addrs == {[fam |-> "v4", ip |-> <<10, 0, 0, 1>>, port |-> p] : p \in LocalPorts}
V6Addrs == {[fam |-> "v6", ip |-> <<65152, 0, 0, 0, 0, 0, 0, 1>>, port |-> p] : p \in LocalPorts}

\* Ipv4Addr::to_ipv6_mapped: ::ffff:a.b.c.d
to_ipv6_mapped(ip) == <<0, 0, 0, 0, 0, 65535, ip[1] * 256 + ip[2], ip[3] * 256 + ip[4]>>

\* local_addr without the pretence: the IPv4 address is returned as it is.
local_addr_unmapped(addrs) ==
    IF IsNone(addrs[2]) THEN addrs[1] ELSE Unwrap(addrs[2])

\* AsyncUdpSocket::local_addr for Conn, from the cached pair.
local_addr(addrs) ==
    IF IsNone(addrs[2])
    THEN LET ipv4 == addrs[1]
         IN  [fam |-> "v6",
              ip |-> IF ipv4.fam = "v4" THEN to_ipv6_mapped(ipv4.ip) ELSE ipv4.ip,
              port |-> ipv4.port]
    ELSE Unwrap(addrs[2])

\* What the sockets do in one rebind: whether the IPv6 rebind succeeds and
\* what the IPv6 socket's local_addr() then returns, and the same for the
\* IPv4 socket (None when local_addr() fails).
RebindOutcomes ==
    [v6_ok : BOOLEAN, v6_addr : {None} \cup {Some(a) : a \in V6Addrs},
     v4_ok : BOOLEAN, v4_addr : {None} \cup {Some(a) : a \in V4Addrs}]

\* The sockets and the cached pair as rebind reads and writes them.
AddrState(addrs, p4, p6) == [local_addrs |-> addrs, pconn4 |-> p4, pconn6 |-> p6, ok |-> TRUE]

\* Actor::rebind: the IPv6 socket is rebound first and a failure of it is
\* ignored; a failure of the IPv4 rebind or of its local_addr() returns the
\* error before the cached pair is written.
rebind(a, o) ==
    LET six == IsSome(a.pconn6) /\ o.v6_ok
        ipv6_addr == IF six THEN o.v6_addr ELSE None
        p6 == IF six /\ IsSome(o.v6_addr) THEN o.v6_addr ELSE a.pconn6
    IN  IF ~o.v4_ok THEN [a EXCEPT !.pconn6 = p6, !.ok = FALSE]
        ELSE IF IsNone(o.v4_addr) THEN [a EXCEPT !.pconn6 = p6, !.ok = FALSE]
        ELSE [local_addrs |-> <<Unwrap(o.v4_addr), ipv6_addr>>,
              pconn4 |-> Unwrap(o.v4_addr), pconn6 |-> p6, ok |-> TRUE]

\* DerpActorMessage::MaybeCloseDerpsOnRebind as handed to the relay worker.
MaybeCloseDerpsOnRebind ==
    [via |-> "derp", dst |-> DerpAddr(0), key |-> None,
     msg |-> [kind |-> "MaybeCloseDerpsOnRebind", tx_id |-> 0, src |-> None, my_number |-> {}],
     ok |-> TRUE]

\* Actor::rebind_all: <<sockets and cached pair, coordinator state>>; after
\* a failed rebind nothing else is done.  (reset_endpoint_states touches
\* only path selection inside the endpoints.)
rebind_all(a, o, st) ==
    LET st1 == Inc(st, "RebindCalls")
        a1 == rebind(a, o)
    IN  IF ~a1.ok THEN <<a1, st1>>
        ELSE <<a1, send_derp_actor(st1, MaybeCloseDerpsOnRebind)>>

\* --------------------------------------------------------------- iterators
\* Number of destinations and longest batch handed to a TransmitIter.
GroupDests == 3
GroupLen == 6
\* Values a byte of a relay frame may take, less one, and the longest frame.
MaxByte == 2
MaxBytes == 6

IterBatches == SeqsUpTo(1..GroupDests, GroupLen)
Bytes == 0..MaxByte
Frames == SeqsUpTo(Bytes, MaxBytes)

\* What PacketSplitIter::next returns: Some(Ok(item)), Some(Err(UnexpectedEof)).
SplitOk(item) == [ok |-> TRUE, item |-> item]
SplitErr == [ok |-> FALSE, item |-> <<>>]

\* PacketSplitIterNext reading the length big-endian.
PacketSplitIterNextBE(bytes) ==
    IF bytes = <<>> THEN <<None, bytes>>
    ELSE IF Len(bytes) < 2 THEN <<Some(SplitErr), <<>>>>
    ELSE LET len == bytes[1] * 256 + bytes[2]
             rest == SubSeq(bytes, 3, Len(bytes))
         IN  IF Len(rest) < len THEN <<Some(SplitErr), <<>>>>
             ELSE <<Some(SplitOk(SubSeq(rest, 1, len))), SubSeq(rest, len + 1, Len(rest))>>

\* PacketSplitIter::next: <<what it returns, the bytes left>>.  get_u16_le
\* takes two bytes, the low one first; fail() clears the buffer.
PacketSplitIterNext(bytes) ==
    IF bytes = <<>> THEN <<None, bytes>>
    ELSE IF Len(bytes) < 2 THEN <<Some(SplitErr), <<>>>>
    ELSE LET len == bytes[1] + 256 * bytes[2]
             rest == SubSeq(bytes, 3, Len(bytes))
         IN  IF Len(rest) < len THEN <<Some(SplitErr), <<>>>>
             ELSE <<Some(SplitOk(SubSeq(rest, 1, len))), SubSeq(rest, len + 1, Len(rest))>>

\* ================================================================== state
VARIABLES
    \* Inner.closed
    closed,
    \* the coordinator task: "run" (in the select loop), "send" (waiting to
    \* place a result in the receive queue), "wake" (the result was placed
    \* and the receive waker is to be taken) or "exited" (run returned, the
    \* Actor and its channel ends are dropped)
    actor,
    \* the command queue (Inner.actor_sender / Actor.msg_receiver)
    actor_q,
    \* the transmit queue (Inner.network_sender / Actor.network_receiver)
    network_q,
    \* Inner.network_send_wakers
    network_send_wakers,
    \* the receive queue (Actor.derp_recv_sender / Inner.network_recv_ch)
    network_recv_ch,
    \* Inner.network_recv_wakers
    network_recv_wakers,
    \* Conn.actor_tasks
    actor_tasks,
    \* the relay worker and the UDP worker: "run", "stopping" or "done"
    worker,
    \* the holder of the actor_tasks mutex, 0 when free
    tasks_lock,
    \* the calls of close(), one per calling task
    close,
    \* the call of poll_send in progress or last returned
    ps,
    \* the call of poll_recv in progress or last returned
    pr,
    \* whether the sending / receiving task of the upper transport was woken
    \* since its last poll
    send_woken, recv_woken,
    \* whether the coordinator freed capacity of the transmit queue since
    \* the send waker was last taken
    freed,
    \* whether some call of close() has returned Ok
    close_ok_returned,
    \* Actor.peer_map
    peer_map,
    \* the process-wide ADDR_COUNTER
    ADDR_COUNTER,
    \* Actor.net_map
    net_map,
    \* Actor.disco_info
    disco_info,
    \* number of messages in the relay worker queue
    derp_q,
    \* what the coordinator's last step did: the operation, the discovery
    \* packet it handled and what it emitted
    out,
    \* every mapped address generated in the process, in order
    allocated,
    \* every mapped address handed to the upper transport so far
    returned,
    \* every <<address, endpoint id>> pair indexed so far because a Pong from
    \* the address matched an outstanding Ping of the endpoint
    ponged,
    \* Actor.last_endpoints
    last_endpoints,
    \* Inner.on_endpoints: whether a callback is registered
    on_endpoints,
    \* the endpoint lists the on_endpoints callback was invoked with, in order
    on_endpoints_calls,
    \* the last endpoint refresh: what determine_endpoints returned and the
    \* list recorded before it, the reason it ran for and the calls it made
    refresh,
    \* Actor.no_v4_send: the last netcheck report said IPv4 cannot send
    no_v4_send,
    \* Actor.endpoints_update_state: the value of the running watch channel
    \* and want_update
    endpoints_update_state,
    \* endpoints_update_receiver in Actor::run: whether the running channel
    \* holds a value the receiver has not seen
    endpoints_update_receiver,
    \* the calls of re_stun so far: their number, the reason of the most
    \* recent one that found a refresh marked running since that refresh
    \* was marked, the number of refreshes completed, and what last wrote
    \* the running channel
    re_stuns,
    \* Actor.last_endpoints_time: "none", or whether the last recording of
    \* the endpoints is at most ENDPOINTS_FRESH_ENOUGH_DURATION old ("fresh")
    \* or older ("stale")
    last_endpoints_time,
    \* Actor.on_endpoint_refreshed: per endpoint id, the relay address and
    \* endpoint id its closure was made with
    on_endpoint_refreshed,
    \* the tasks spawned by the coordinator that have not run yet
    spawned,
    \* Inner.local_addrs: the cached <<IPv4 address, IPv6 address or None>>
    local_addrs,
    \* Actor.pconn4: the local address of the IPv4 socket
    pconn4,
    \* Actor.pconn6: the local address of the IPv6 socket, None when there is
    \* no IPv6 socket
    pconn6,
    \* the calls of rebind_all(), one per calling task
    rebinds,
    \* the last call of the facade's local_addr(): the cached pair it read and
    \* the address it returned
    la,
    \* a TransmitIter: the batch, the offset and the groups yielded so far
    transmit_it,
    \* a PacketSplitIter: the buffer it was made from, the bytes left and
    \* the items yielded so far
    split_it,
    \* a call of endpoint_sets_equal: the two lists and, once it returned,
    \* what it returned
    sets_equal,
    \* the calls of pick_derp_fallback so far: the relay map, the home
    \* region and the region returned
    picked,
    \* the last call of determine_endpoints: what it read and the list it
    \* returned
    determined,
    \* the last call of bind: the preferred port and the ports asked of the
    \* two sockets
    bound

closeVars == <<close, tasks_lock, actor_tasks, close_ok_returned>>
sendVars == <<ps, network_q, network_send_wakers, send_woken, freed>>
recvVars == <<pr, network_recv_ch, network_recv_wakers, recv_woken>>
facadeVars == <<actor_q, worker, closeVars, sendVars, recvVars>>
peerVars ==
    <<peer_map, ADDR_COUNTER, net_map, disco_info, derp_q, out, allocated, returned, ponged>>
endpointVars ==
    <<last_endpoints, on_endpoints, on_endpoints_calls, refresh, no_v4_send,
      endpoints_update_state, endpoints_update_receiver, re_stuns, last_endpoints_time,
      on_endpoint_refreshed, spawned>>
addrVars == <<local_addrs, pconn4, pconn6, rebinds, la>>
callVars == <<picked, determined, bound>>
iterVars == <<transmit_it, split_it, sets_equal, callVars>>
auxVars == <<endpointVars, addrVars, iterVars>>
vars == <<closed, actor, facadeVars, peerVars, auxVars>>

\* What a step of the coordinator emitted: the messages handed to a socket
\* or to the relay worker, the probes asked for, the metrics incremented and
\* the results placed in the receive queue.
NoOut ==
    [op |-> "none", disco |-> None, sent |-> <<>>, probes |-> {}, inc |-> {}, enq |-> <<>>,
     derived |-> <<>>]
OutOf(op, disco, st, enq) ==
    [op |-> op, disco |-> disco, sent |-> st.sent, probes |-> st.probes, inc |-> st.inc,
     enq |-> enq, derived |-> st.derived]

\* The coordinator state at the start of a handler.
Coord ==
    [CoordState(peer_map, ADDR_COUNTER, disco_info, derp_q)
        EXCEPT !.derp_open = worker.derp # "done"]

\* The mapped addresses among the results a step placed in the receive queue.
AddrsOf(results) == {Unwrap(results[i].addr) : i \in {j \in DOMAIN results : results[j].ok}}

\* The variables a handler writes, from the state it ends in; reply is what
\* it sends back on the oneshot of a GetMappingAddr.
Commit(op, disco, st, enq, reply) ==
    /\ Len(allocated) + Len(st.created) <= MaxAlloc
    /\ peer_map' = st.pm
    /\ ADDR_COUNTER' = st.ctr
    /\ disco_info' = st.di
    /\ derp_q' = st.dq
    /\ out' = OutOf(op, disco, st, enq)
    /\ allocated' = allocated \o st.created
    /\ returned' = returned \cup AddrsOf(enq)
                     \cup (IF IsSome(reply) THEN {Unwrap(reply)} ELSE {})
    /\ ponged' = ponged \cup st.ponged

IdleClose == [pc |-> "idle", late |-> FALSE, sent |-> FALSE, waited |-> FALSE, res |-> "none"]
IdleSend ==
    [pc |-> "idle", batch |-> <<>>, off |-> 1, n |-> 0, enq |-> <<>>, stored |-> FALSE,
     late |-> FALSE, res |-> "none"]
IdleRecv ==
    [pc |-> "idle", slots |-> 0, it |-> 0, num |-> 0, deq |-> 0, stored |-> FALSE,
     late |-> FALSE, res |-> "none"]

InitFacade ==
    /\ actor_q = <<>>
    /\ network_q = <<>>
    /\ network_send_wakers = None
    /\ network_recv_ch = <<>>
    /\ network_recv_wakers = None
    /\ actor_tasks = <<"main", "derp", "udp">>
    /\ worker = [w \in {"derp", "udp"} |-> "run"]
    /\ tasks_lock = 0
    /\ close = [c \in Closers |-> IdleClose]
    /\ ps = IdleSend
    /\ pr = IdleRecv
    /\ send_woken = FALSE
    /\ recv_woken = FALSE
    /\ freed = FALSE
    /\ close_ok_returned = FALSE

InitPeers ==
    /\ peer_map = EmptyPeerMap
    /\ ADDR_COUNTER = 0
    /\ net_map = None
    /\ disco_info = EmptyMap
    /\ derp_q = 0
    /\ out = NoOut
    /\ allocated = <<>>
    /\ returned = {}
    /\ ponged = {}

NoRefresh ==
    [done |-> FALSE, result |-> DetermineErr, prior |-> <<>>, why |-> None, steps |-> <<>>]

\* EndpointUpdateState::new and the subscription in Actor::run: no refresh
\* is marked running and nothing is wanted.
InitUpdateState ==
    /\ refresh = NoRefresh
    /\ no_v4_send = FALSE
    /\ endpoints_update_state = [running |-> None, want_update |-> None]
    /\ endpoints_update_receiver = FALSE
    /\ re_stuns = [calls |-> 0, asked |-> None, refreshes |-> 0, by |-> "none"]
    /\ last_endpoints_time = "none"
    /\ on_endpoint_refreshed = EmptyMap
    /\ spawned = {}

InitEndpoints ==
    /\ last_endpoints = <<>>
    /\ on_endpoints = TRUE
    /\ on_endpoints_calls = <<>>
    /\ InitUpdateState

IdleRebind == [pc |-> "idle", calls |-> 0]
NoLocalAddr == [called |-> FALSE, addrs |-> <<>>, res |-> <<>>]

\* Conn::new binds both sockets and caches their addresses; here both
\* binds succeeded.
InitAddrs ==
    /\ pconn4 = CHOOSE a \in V4Addrs : a.port = 1
    /\ pconn6 = Some(CHOOSE a \in V6Addrs : a.port = 1)
    /\ local_addrs = <<pconn4, pconn6>>
    /\ rebinds = [t \in Rebinders |-> IdleRebind]
    /\ la = NoLocalAddr

NewTransmitIter(transmits) ==
    [transmits |-> transmits, offset |-> 1, groups |-> <<>>, done |-> FALSE]
NewPacketSplitIter(bytes) ==
    [input |-> bytes, bytes |-> bytes, items |-> <<>>, done |-> FALSE]

InitCalls ==
    /\ picked = <<>>
    /\ determined = None
    /\ bound = None

InitIters ==
    /\ transmit_it = NewTransmitIter(<<>>)
    /\ split_it = NewPacketSplitIter(<<>>)
    /\ sets_equal = [xs |-> <<>>, ys |-> <<>>, res |-> Some(TRUE)]
    /\ InitCalls

\* The state after Conn::new.
Init ==
    /\ closed = FALSE
    /\ actor = "run"
    /\ InitFacade
    /\ InitPeers
    /\ InitEndpoints
    /\ InitAddrs
    /\ InitIters

\* ------------------------------------------- the coordinator's handlers
\* ActorMessage::SetNetworkMap(nm, s)
SetNetworkMap(nm) ==
    /\ actor = "run"
    /\ LET res == set_network_map(Coord, net_map, closed, nm)
       IN  /\ Commit("SetNetworkMap", None, res[1], <<>>, None)
           /\ net_map' = res[2]
    /\ UNCHANGED <<auxVars, closed, actor, facadeVars>>

\* A discovery packet as handle_disco_message receives it.
DiscoPacket(source, sealed_box, src, derp_node_src) ==
    [source |-> source, sealed_box |-> sealed_box, src |-> src,
     derp_node_src |-> derp_node_src]

\* IpPacket::Disco from the UDP worker: no relay source key.
\* The two assert! of handle_ping: the arrival address has the relay magic
\* ip exactly when a relay source key is present.
handle_ping_asserts(src, derp_node_src) ==
    (src.ip = DERP_MAGIC_IP) = IsSome(derp_node_src)

\* A discovery packet is passed on to handle_ping: the connection is open,
\* the box opens and parses and holds a Ping.
ReachesHandlePing(sealed_box, is_closed) ==
    ~is_closed /\ sealed_box.opens /\ sealed_box.parses /\ sealed_box.msg.kind = "ping"

\* handle_disco_message and handle_ping up to a failing assert!.
HandleDiscoUntilAssert(st, sender, src) ==
    LET unknown_sender == UnknownSender(st.pm, sender, src)
        st1 == Inc(Inc(get_disco_info(st, sender),
                       IF src.ip = DERP_MAGIC_IP THEN "RecvDiscoDerp" ELSE "RecvDiscoUdp"),
                   "RecvDiscoPing")
    IN  IF unknown_sender
        THEN create_endpoint(st1, sender, IF src.ip = DERP_MAGIC_IP THEN Some(src) ELSE None)
        ELSE st1

\* The ip_receiver arm of Actor::run for IpPacket::Disco: no relay source
\* key.  A failing assert! of handle_ping panics the coordinator's task.
HandleDiscoUdp(source, sealed_box, src, udp_ok) ==
    /\ actor = "run"
    /\ IF ReachesHandlePing(sealed_box, closed) /\ ~handle_ping_asserts(src, None)
       THEN /\ actor' = "panicked"
            /\ Commit("Disco", Some(DiscoPacket(source, sealed_box, src, None)),
                      HandleDiscoUntilAssert(Coord, source, src), <<>>, None)
       ELSE /\ UNCHANGED actor
            /\ Commit("Disco", Some(DiscoPacket(source, sealed_box, src, None)),
                      handle_disco_message(Coord, source, sealed_box, src, None, closed,
                                           udp_ok),
                      <<>>, None)
    /\ UNCHANGED <<auxVars, closed, facadeVars, net_map>>

\* The discovery packet of a relay frame, if it has one.
DiscoOf(dm) ==
    LET at == {i \in DOMAIN dm.parts : dm.parts[i].t = "disco"}
    IN  IF at = {} THEN None
        ELSE LET part == dm.parts[CHOOSE i \in at : TRUE]
             IN  Some(DiscoPacket(part.source, part.sealed_box, DerpAddr(dm.region_id),
                                  Some(dm.src)))

\* ActorMessage::ReceiveDerp(read_result): the passthroughs are sent to the
\* receive queue.
ReceiveDerp(dm) ==
    /\ actor = "run"
    /\ LET res == process_derp_read_result(Coord, dm, closed)
       IN  Commit("ReceiveDerp", DiscoOf(dm), res[1], res[2], None)
    /\ UNCHANGED <<auxVars, closed, actor, facadeVars, net_map>>

\* IpPacket::Forward(forward) from the UDP worker: an Ok result carries
\* the real source address in its meta and goes through receive_ip, the
\* Error sentinel is passed on as it is.
ForwardIp(forward) ==
    /\ actor = "run"
    /\ LET addr == IF forward.ok THEN receive_ip(peer_map, Unwrap(forward.addr)) ELSE None
       IN  Commit("ForwardIp", None, Coord,
                  IF ~forward.ok THEN <<forward>>
                  ELSE IF IsNone(addr) THEN <<>>
                  ELSE <<ReadOk(Unwrap(addr), forward.source)>>,
                  None)
    /\ UNCHANGED <<auxVars, closed, actor, facadeVars, net_map>>

\* ActorMessage::GetMappingAddr(node_key, s)
GetMappingAddr(node_key) ==
    /\ actor = "run"
    /\ LET found == endpoint_for_node_key(peer_map, node_key)
       IN  Commit("GetMappingAddr", None, Coord, <<>>,
                  IF IsNone(found) THEN None
                  ELSE Some(peer_map.by_id[Unwrap(found)].quic_mapped_addr))
    /\ UNCHANGED <<auxVars, closed, actor, facadeVars, net_map>>

\* The relay worker (derp_actor.rs) takes a message off its queue.
DerpWorkerTake ==
    /\ derp_q > 0
    /\ derp_q' = derp_q - 1
    /\ UNCHANGED <<auxVars, closed, actor, facadeVars, peer_map, ADDR_COUNTER, net_map, disco_info,
                   out, allocated, returned, ponged>>

\* Another Conn of the same process creates an endpoint: Endpoint::new
\* takes the next value of the shared ADDR_COUNTER.
OtherConnGenerate ==
    /\ Len(allocated) < MaxAlloc
    /\ LET g == generate(ADDR_COUNTER)
       IN  /\ ADDR_COUNTER' = g[2]
           /\ allocated' = Append(allocated, g[1])
    /\ UNCHANGED <<auxVars, closed, actor, facadeVars, peer_map, net_map, disco_info, derp_q, out,
                   returned, ponged>>

\* Conn::close as the coordinator sees it: the closed flag is stored.
PeersCloseStore ==
    /\ ~closed
    /\ closed' = TRUE
    /\ UNCHANGED <<auxVars, actor, facadeVars, peerVars>>

\* ------------------------------------------------ SpecPeers: the peer table
\* The events that create, index and delete endpoints and that hand mapped
\* addresses to the upper transport.  Discovery enters as the first Ping.
DataFrames == {dm \in DerpReadResults : \A i \in DOMAIN dm.parts : dm.parts[i].t # "disco"}
ForwardResults == {ReadOk(a, "Ipv4") : a \in UdpAddrs} \cup {ReadError}

NextPeers ==
    \/ \E nm \in NetworkMaps : SetNetworkMap(nm)
    \/ \E k \in Keys, a \in UdpAddrs : HandleDiscoUdp(k, GoodBox(Ping(1)), a, TRUE)
    \/ \E dm \in DataFrames : ReceiveDerp(dm)
    \/ \E f \in ForwardResults : ForwardIp(f)
    \/ \E k \in Keys : GetMappingAddr(k)
    \/ OtherConnGenerate
    \/ PeersCloseStore

SpecPeers == Init /\ [][NextPeers]_vars

\* ------------------------------------------------- SpecDisco: discovery
\* The discovery packets that arrive over UDP and inside relay frames, and
\* the relay worker draining its queue.
DiscoFrames == {dm \in DerpReadResults : Len(dm.parts) = 1 /\ dm.parts[1].t = "disco"}

NextDisco ==
    \/ \E k \in Keys, b \in SealedBoxes, a \in UdpAddrs, ok \in BOOLEAN :
           HandleDiscoUdp(k, b, a, ok)
    \/ \E dm \in DiscoFrames : ReceiveDerp(dm)
    \/ DerpWorkerTake
    \/ PeersCloseStore

SpecDisco == Init /\ [][NextDisco]_vars

\* ------------------------------------- SpecInsert: every source of endpoints
\* Network maps, discovery packets of every kind over UDP, relay frames of
\* every kind (the empty one too) and UDP datagrams passed through.
\* The network maps naming no peer or the first one, and the relay frames of
\* at most one item.
ShortMaps ==
    {m \in NetworkMaps : Len(m.peers) <= 1 /\ \A i \in DOMAIN m.peers : m.peers[i].key = 1}
ShortFrames == {r \in DerpReadResults : Len(r.parts) <= 1}

NextInsert ==
    \/ \E nm \in ShortMaps : SetNetworkMap(nm)
    \/ \E k \in Keys, b \in SealedBoxes, a \in UdpAddrs : HandleDiscoUdp(k, b, a, TRUE)
    \/ \E dm \in ShortFrames : ReceiveDerp(dm)
    \/ \E f \in ForwardResults : ForwardIp(f)

SpecInsert == Init /\ [][NextInsert]_vars

\* ------------------------------- SpecAssert: discovery from any UDP source
\* The source address of a datagram the UDP worker hands over as
\* IpPacket::Disco: whatever address the datagram carries, 127.3.3.40
\* (DERP_MAGIC_IP, a loopback address) included.
UdpSources == SocketAddrs

NextAssert ==
    \/ \E k \in Keys, b \in SealedBoxes, a \in UdpSources : HandleDiscoUdp(k, b, a, TRUE)
    \/ \E dm \in DiscoFrames : ReceiveDerp(dm)
    \/ DerpWorkerTake
    \/ PeersCloseStore

SpecAssert == Init /\ [][NextAssert]_vars

\* ---------------------------------------------- SpecPong: Pings and Pongs
\* An endpoint probes one of its candidate addresses (endpoint.rs): it
\* records the transaction id of the Ping it sends as outstanding for that
\* address.
StartPing(id, addr, tx_id) ==
    /\ actor = "run"
    /\ ~closed
    /\ id \in DOMAIN peer_map.by_id
    /\ addr \in DOMAIN peer_map.by_id[id].endpoint_state
    /\ tx_id \notin DOMAIN peer_map.by_id[id].sent_ping
    /\ Commit("StartPing", None,
              [Coord EXCEPT !.pm.by_id[id].sent_ping = MapPut(@, tx_id, addr)], <<>>, None)
    /\ UNCHANGED <<auxVars, closed, actor, facadeVars, net_map>>

\* The Pings and Pongs that arrive whole over UDP.
PingPongBoxes == {GoodBox(Ping(t)) : t \in TxIds} \cup {GoodBox(Pong(t, OwnAddr)) : t \in TxIds}

NextPong ==
    \/ \E nm \in NetworkMaps : SetNetworkMap(nm)
    \/ \E id \in 0..(MaxAlloc - 1), a \in SocketAddrs, t \in TxIds : StartPing(id, a, t)
    \/ \E k \in Keys, b \in PingPongBoxes, a \in UdpAddrs : HandleDiscoUdp(k, b, a, TRUE)
    \/ PeersCloseStore

SpecPong == Init /\ [][NextPong]_vars

\* ------------------------------------------ SpecEndpoints: endpoint refresh
\* re_stun keeping the first reason it was asked to remember.
re_stun_keep_first(eus, why) ==
    IF IsSome(eus.running)
    THEN IF IsSome(eus.want_update) THEN eus ELSE [eus EXCEPT !.want_update = Some(why)]
    ELSE [eus EXCEPT !.running = Some(why)]

\* Actor::re_stun on the update state: while a refresh is marked running
\* the reason replaces want_update, otherwise the refresh is marked running.
re_stun(eus, why) ==
    IF IsSome(eus.running)
    THEN [eus EXCEPT !.want_update = Some(why)]
    ELSE [eus EXCEPT !.running = Some(why)]

\* The end of update_endpoints forgetting what was wanted.
finish_update_forget(eus, is_closed) ==
    [running |-> None, want_update |-> None]

\* The end of Actor::update_endpoints on the update state: want_update is
\* taken, and on an open connection the refresh it names is marked running.
finish_update(eus, is_closed) ==
    [running |-> IF ~is_closed THEN eus.want_update ELSE None, want_update |-> None]

\* Actor::re_stun, called for ActorMessage::ReStun(why) and for the
\* periodic timer.
ReStun(why, queued) ==
    /\ actor = "run"
    /\ re_stuns.calls < MaxReStuns
    /\ IF queued
       THEN /\ actor_q # <<>>
            /\ Head(actor_q) = [kind |-> "ReStun", from |-> 0, why |-> why]
            /\ actor_q' = Tail(actor_q)
       ELSE UNCHANGED actor_q
    /\ LET running == endpoints_update_state.running
       IN  /\ endpoints_update_state' = re_stun(endpoints_update_state, why)
           /\ endpoints_update_receiver' = (endpoints_update_receiver \/ IsNone(running))
           /\ re_stuns' = [re_stuns EXCEPT
                              !.calls = @ + 1,
                              !.asked = IF IsSome(running) THEN Some(why) ELSE @,
                              !.by = IF IsSome(running) THEN @ ELSE "re_stun"]
    /\ Commit("ReStun", None, Inc(Coord, "ReStunCalls"), <<>>, None)
    /\ UNCHANGED <<closed, actor, worker, closeVars, sendVars, recvVars, net_map, last_endpoints,
                   on_endpoints, on_endpoints_calls, refresh, no_v4_send, last_endpoints_time,
                   on_endpoint_refreshed, spawned, addrVars, iterVars>>

\* endpoints_update_receiver.changed() in Actor::run when the channel
\* holds None: nothing is started.
EndpointsUpdateNone ==
    /\ actor = "run"
    /\ endpoints_update_receiver
    /\ IsNone(endpoints_update_state.running)
    /\ endpoints_update_receiver' = FALSE
    /\ UNCHANGED <<closed, actor, facadeVars, peerVars, last_endpoints, on_endpoints,
                   on_endpoints_calls, refresh, no_v4_send, endpoints_update_state, re_stuns,
                   last_endpoints_time, on_endpoint_refreshed, spawned, addrVars, iterVars>>

\* update_endpoints never rebinding.
rebind_never(flag, is_closed) == FALSE

\* The test at the head of update_endpoints: rebind_all runs, before
\* determine_endpoints, when the last netcheck reported a send error and
\* the connection is open.
rebind_before_determine(flag, is_closed) == flag /\ ~is_closed

\* endpoints_update_receiver.changed() in Actor::run when the channel
\* holds a reason, and Actor::update_endpoints: a rebind first when the last
\* netcheck reported a send error on the open connection, then
\* determine_endpoints, whose result is recorded by set_endpoints and
\* reported to the callback when it changed; set_endpoints also stamps
\* last_endpoints_time and spawns a task per on_endpoint_refreshed entry;
\* at the end want_update is taken and, on an open connection, the refresh
\* it names is marked running, otherwise none is.
UpdateEndpoints(report, o, result) ==
    /\ actor = "run"
    /\ endpoints_update_receiver
    /\ IsSome(endpoints_update_state.running)
    /\ endpoints_update_state' = finish_update(endpoints_update_state, closed)
    /\ endpoints_update_receiver' = TRUE
    /\ re_stuns' = [re_stuns EXCEPT !.asked = None, !.refreshes = @ + 1,
                                    !.by = "update_endpoints"]
    /\ LET st == Inc(Coord, "UpdateEndpoints")
           a == AddrState(local_addrs, pconn4, pconn6)
           rebinds_first == rebind_before_determine(no_v4_send, closed)
           ra == IF rebinds_first THEN rebind_all(a, o, st) ELSE <<a, st>>
           se == set_endpoints(last_endpoints, result.endpoints)
       IN  /\ local_addrs' = ra[1].local_addrs
           /\ pconn4' = ra[1].pconn4
           /\ pconn6' = ra[1].pconn6
           /\ Commit("UpdateEndpoints", None, ra[2], <<>>, None)
           /\ IF result.ok
              THEN /\ last_endpoints' = se[1]
                   /\ on_endpoints_calls' =
                          IF se[2] /\ on_endpoints
                          THEN Append(on_endpoints_calls, result.endpoints)
                          ELSE on_endpoints_calls
                   /\ last_endpoints_time' = "fresh"
                   /\ spawned' = spawned \cup
                          {[kind |-> "refreshed", f |-> on_endpoint_refreshed[id]] :
                              id \in DOMAIN on_endpoint_refreshed}
                   /\ on_endpoint_refreshed' = EmptyMap
              ELSE UNCHANGED <<last_endpoints, on_endpoints_calls, last_endpoints_time,
                               spawned, on_endpoint_refreshed>>
    /\ refresh' = [done |-> TRUE, result |-> result, prior |-> last_endpoints,
                   why |-> endpoints_update_state.running,
                   steps |-> (IF rebind_before_determine(no_v4_send, closed)
                              THEN <<"rebind_all">> ELSE <<>>)
                             \o <<"determine_endpoints">>]
    /\ no_v4_send' = IF IsSome(report) THEN ~Unwrap(report) ELSE no_v4_send
    /\ UNCHANGED <<closed, actor, facadeVars, net_map, on_endpoints, rebinds, la, iterVars>>

\* The state after Conn::new with or without an on_endpoints callback in
\* the options.
InitAnyCallback ==
    /\ closed = FALSE
    /\ actor = "run"
    /\ InitFacade
    /\ InitPeers
    /\ last_endpoints = <<>>
    /\ on_endpoints \in BOOLEAN
    /\ on_endpoints_calls = <<>>
    /\ InitUpdateState
    /\ InitAddrs
    /\ InitIters

\* The rebinds of rebind_all(): CurrentPortFate::Keep, each socket comes
\* back on the port it had.
KeepPortOutcomes ==
    {o \in RebindOutcomes : o.v4_addr = Some(pconn4) /\ o.v6_addr \in {None, pconn6}}

\* The select loop picks among its ready arms at random: a refresh that
\* is marked running is eventually run.
NextEndpoints ==
    \/ \E why \in Whys : ReStun(why, FALSE)
    \/ \E report \in Reports, o \in KeepPortOutcomes, result \in DetermineResults :
           UpdateEndpoints(report, o, result)
    \/ EndpointsUpdateNone
    \/ PeersCloseStore

SpecEndpoints ==
    /\ InitAnyCallback
    /\ [][NextEndpoints]_vars
    /\ SF_vars(\E report \in Reports, o \in KeepPortOutcomes, result \in DetermineResults :
                   UpdateEndpoints(report, o, result))

\* SpecNetcheck: the refreshes with the periodic re-STUN timer, which
\* update_endpoints arms again at its end and whose tick is an arm of the
\* select loop: the tick is eventually handled.
FairNetcheck ==
    /\ WF_vars(ReStun("periodic", FALSE))
    /\ SF_vars(\E report \in Reports, o \in KeepPortOutcomes, result \in DetermineResults :
                   UpdateEndpoints(report, o, result))

SpecNetcheck == InitAnyCallback /\ [][NextEndpoints]_vars /\ FairNetcheck

\* ------------------------------------------ SpecCallMeMaybe: call-me-maybe
\* Actor::enqueue_call_me_maybe for ActorMessage::EnqueueCallMeMaybe: with
\* stale endpoints a closure is kept for the endpoint and the handler goes
\* on to send ReStun to the coordinator's own command queue
\* (EnqueueCallMeMaybeSend); otherwise a task is spawned that sends
\* SendDiscoMessage with a CallMeMaybe of the recorded endpoints.
EnqueueCallMeMaybe(derp_addr, endpoint_id) ==
    /\ actor = "run"
    /\ Commit("EnqueueCallMeMaybe", None, Coord, <<>>, None)
    /\ IF endpoint_id \notin DOMAIN peer_map.by_id
       THEN UNCHANGED <<actor, on_endpoint_refreshed, spawned>>
       ELSE IF last_endpoints_time # "fresh"
       THEN /\ Cardinality(DOMAIN on_endpoint_refreshed \cup {endpoint_id})
                  + Cardinality(spawned) <= MaxSpawned
            /\ on_endpoint_refreshed' =
                   MapPut(on_endpoint_refreshed, endpoint_id,
                          [derp_addr |-> derp_addr, endpoint_id |-> endpoint_id])
            /\ actor' = "enqueue_send"
            /\ UNCHANGED spawned
       ELSE /\ spawned' = spawned \cup
                   {[kind |-> "send_disco", dst |-> derp_addr,
                     dst_key |-> peer_map.by_id[endpoint_id].public_key,
                     msg |-> CallMeMaybe({last_endpoints[i] : i \in DOMAIN last_endpoints})]}
            /\ Cardinality(DOMAIN on_endpoint_refreshed) + Cardinality(spawned')
                  <= MaxSpawned
            /\ UNCHANGED <<actor, on_endpoint_refreshed>>
    /\ UNCHANGED <<closed, facadeVars, net_map, last_endpoints,
                   on_endpoints, on_endpoints_calls, refresh, no_v4_send, endpoints_update_state,
                   endpoints_update_receiver, re_stuns, last_endpoints_time, addrVars, iterVars>>

\* The end of the stale branch of enqueue_call_me_maybe:
\* self.msg_sender.send(ActorMessage::ReStun("refresh-for-peering")).await,
\* a send to the command queue the coordinator itself receives from.  It
\* completes when the queue has room; the handler, and with it the
\* coordinator's loop, waits in it until then.
EnqueueCallMeMaybeSend ==
    /\ actor = "enqueue_send"
    /\ Len(actor_q) < ActorCap
    /\ actor_q' = Append(actor_q, [kind |-> "ReStun", from |-> 0,
                                   why |-> "refresh-for-peering"])
    /\ actor' = "run"
    /\ UNCHANGED <<auxVars, closed, worker, closeVars, sendVars, recvVars, peerVars>>

\* A task spawned by set_endpoints runs: it calls the closure, which
\* builds the future that would send EnqueueCallMeMaybe, and drops what the
\* closure returned without awaiting it.
RunRefreshed(task) ==
    /\ task \in spawned
    /\ task.kind = "refreshed"
    /\ spawned' = spawned \ {task}
    /\ UNCHANGED <<closed, actor, facadeVars, peerVars, last_endpoints, on_endpoints,
                   on_endpoints_calls, refresh, no_v4_send, endpoints_update_state,
                   endpoints_update_receiver, re_stuns, last_endpoints_time,
                   on_endpoint_refreshed, addrVars, iterVars>>

\* A task spawned by enqueue_call_me_maybe sends SendDiscoMessage and the
\* coordinator handles it: send_disco_message.
SendDiscoMessage(task, udp_ok) ==
    /\ actor = "run"
    /\ task \in spawned
    /\ task.kind = "send_disco"
    /\ spawned' = spawned \ {task}
    /\ Commit("SendDiscoMessage", None,
              send_disco_message(Coord, task.dst, task.dst_key, task.msg, closed, udp_ok),
              <<>>, None)
    /\ UNCHANGED <<closed, actor, facadeVars, net_map, last_endpoints, on_endpoints,
                   on_endpoints_calls, refresh, no_v4_send, endpoints_update_state,
                   endpoints_update_receiver, re_stuns, last_endpoints_time,
                   on_endpoint_refreshed, addrVars, iterVars>>

\* ENDPOINTS_FRESH_ENOUGH_DURATION passes since the endpoints were recorded.
EndpointsGoStale ==
    /\ last_endpoints_time = "fresh"
    /\ last_endpoints_time' = "stale"
    /\ UNCHANGED <<closed, actor, facadeVars, peerVars, last_endpoints, on_endpoints,
                   on_endpoints_calls, refresh, no_v4_send, endpoints_update_state,
                   endpoints_update_receiver, re_stuns, on_endpoint_refreshed, spawned,
                   addrVars, iterVars>>

\* The relay_addr of the EnqueueCallMeMaybe messages the endpoints send: the
\* peer's relay address, (DERP_MAGIC_IP, region).
EnqueueRelayAddrs == DerpAddrs

NextCallMeMaybe ==
    \/ \E n \in Nodes : SetNetworkMap([peers |-> <<n>>])
    \/ \E derp_addr \in EnqueueRelayAddrs, endpoint_id \in 0..(MaxAlloc - 1) :
           EnqueueCallMeMaybe(derp_addr, endpoint_id)
    \/ EnqueueCallMeMaybeSend
    \/ ReStun("refresh-for-peering", TRUE)
    \/ \E result \in {DetermineErr, DetermineOk(<<1>>)} :
           UpdateEndpoints(None, CHOOSE o \in KeepPortOutcomes : TRUE, result)
    \/ EndpointsUpdateNone
    \/ \E task \in spawned : RunRefreshed(task)
    \/ \E task \in spawned, udp_ok \in BOOLEAN : SendDiscoMessage(task, udp_ok)
    \/ EndpointsGoStale
    \/ DerpWorkerTake
    \/ PeersCloseStore

SpecCallMeMaybe == Init /\ [][NextCallMeMaybe]_vars

\* ============================================ SpecFacade: Conn and its tasks
\* Inner::is_closed
is_closed == closed

\* ---------------------------------------------------------------- close()
\* close(), up to the check of is_closed: a call that finds the flag set
\* returns Ok at once.  late records whether some call had returned Ok
\* before this one started.
CloseCall(c) ==
    /\ close[c].pc \in {"idle", "done"}
    /\ IF is_closed
       THEN /\ close' = [close EXCEPT ![c] = [IdleClose EXCEPT !.pc = "done", !.res = "Ok",
                                                               !.late = close_ok_returned]]
            /\ close_ok_returned' = TRUE
       ELSE /\ close' = [close EXCEPT ![c] = [IdleClose EXCEPT !.pc = "send",
                                                               !.late = close_ok_returned]]
            /\ UNCHANGED close_ok_returned
    /\ UNCHANGED <<auxVars, closed, actor, actor_q, worker, tasks_lock, actor_tasks, sendVars, recvVars,
                   peerVars>>

\* self.actor_sender.send(ActorMessage::Shutdown).await?: the send waits for
\* capacity and fails once the coordinator has dropped its receiver.
CloseSend(c) ==
    /\ close[c].pc = "send"
    /\ IF actor = "exited"
       THEN /\ close' = [close EXCEPT ![c].pc = "done", ![c].res = "Err"]
            /\ UNCHANGED actor_q
       ELSE /\ Len(actor_q) < ActorCap
            /\ actor_q' = Append(actor_q, [kind |-> "Shutdown", from |-> 0])
            /\ close' = [close EXCEPT ![c].pc = "store", ![c].sent = TRUE]
    /\ UNCHANGED <<auxVars, closed, actor, worker, tasks_lock, actor_tasks, close_ok_returned, sendVars,
                   recvVars, peerVars>>

\* CloseStore with the store of the closed flag lost.
CloseStoreLost(c) ==
    /\ close[c].pc = "store"
    /\ close' = [close EXCEPT ![c].pc = "lock"]
    /\ UNCHANGED <<auxVars, closed, actor, actor_q, worker, tasks_lock, actor_tasks, close_ok_returned,
                   sendVars, recvVars, peerVars>>

\* self.closing.store(true); self.closed.store(true)
CloseStore(c) ==
    /\ close[c].pc = "store"
    /\ closed' = TRUE
    /\ close' = [close EXCEPT ![c].pc = "lock"]
    /\ UNCHANGED <<auxVars, actor, actor_q, worker, tasks_lock, actor_tasks, close_ok_returned, sendVars,
                   recvVars, peerVars>>

\* self.actor_tasks.lock().await
CloseLock(c) ==
    /\ close[c].pc = "lock"
    /\ tasks_lock = 0
    /\ tasks_lock' = c
    /\ close' = [close EXCEPT ![c].pc = "wait"]
    /\ UNCHANGED <<auxVars, closed, actor, actor_q, worker, actor_tasks, close_ok_returned, sendVars,
                   recvVars, peerVars>>

\* Whether the task behind a join handle has finished.
TaskDone(task) == IF task = "main" THEN actor = "exited" ELSE worker[task] = "done"

\* while let Some(task) = tasks.pop() { task.await?; } Ok(()): one round of
\* the loop, or the return that releases the lock when the list is empty.
CloseWait(c) ==
    /\ close[c].pc = "wait"
    /\ IF actor_tasks = <<>>
       THEN /\ close' = [close EXCEPT ![c].pc = "done", ![c].res = "Ok"]
            /\ tasks_lock' = 0
            /\ close_ok_returned' = TRUE
            /\ UNCHANGED actor_tasks
       ELSE /\ TaskDone(actor_tasks[Len(actor_tasks)])
            /\ actor_tasks' = SubSeq(actor_tasks, 1, Len(actor_tasks) - 1)
            /\ close' = [close EXCEPT ![c].waited = TRUE]
            /\ UNCHANGED <<tasks_lock, close_ok_returned>>
    /\ UNCHANGED <<auxVars, closed, actor, actor_q, worker, sendVars, recvVars, peerVars>>

\* ------------------------------------------------------------- poll_send
\* What poll_send returns after its loop.
SendResult(n) == IF n > 0 THEN "Ready" ELSE "Pending"

\* PollSendCall without the check of is_closed.
PollSendCallUnchecked(transmits) ==
    /\ ps.pc \in {"idle", "done"}
    /\ ps.res = "Pending" => send_woken
    /\ send_woken' = FALSE
    /\ ps' = LET call == [IdleSend EXCEPT !.batch = transmits, !.late = is_closed]
             IN  IF transmits = <<>> THEN [call EXCEPT !.pc = "done", !.res = "Ready"]
                 ELSE [call EXCEPT !.pc = "loop"]
    /\ UNCHANGED <<auxVars, closed, actor, actor_q, worker, closeVars, network_q, network_send_wakers,
                   freed, recvVars, peerVars>>

\* poll_send up to the start of the loop: NotConnected when the flag is
\* set, Ready(0) for an empty batch.  The caller polls again only after a
\* result other than Pending, or when its waker was woken.  late records
\* whether the flag was set when the call started.
PollSendCall(transmits) ==
    /\ ps.pc \in {"idle", "done"}
    /\ ps.res = "Pending" => send_woken
    /\ send_woken' = FALSE
    /\ ps' = LET call == [IdleSend EXCEPT !.batch = transmits, !.late = is_closed]
             IN  IF is_closed THEN [call EXCEPT !.pc = "done", !.res = "NotConnected"]
                 ELSE IF transmits = <<>> THEN [call EXCEPT !.pc = "done", !.res = "Ready"]
                 ELSE [call EXCEPT !.pc = "loop"]
    /\ UNCHANGED <<auxVars, closed, actor, actor_q, worker, closeVars, network_q, network_send_wakers,
                   freed, recvVars, peerVars>>

\* PollSendReserve counting one per group sent instead of group.len().
PollSendReserveCountsGroups ==
    /\ ps.pc = "loop"
    /\ LET nx == TransmitIterNext(ps.batch, ps.off)
           group == nx[1]
       IN  IF actor = "exited"
           THEN /\ ps' = [ps EXCEPT !.pc = "done", !.res = "NotConnected"]
                /\ UNCHANGED network_q
           ELSE IF Len(network_q) = NetCap
           THEN /\ ps' = [ps EXCEPT !.pc = "full"]
                /\ UNCHANGED network_q
           ELSE /\ network_q' = Append(network_q, group)
                /\ ps' = [ps EXCEPT !.n = @ + 1, !.enq = Append(@, group),
                                     !.off = nx[2],
                                     !.pc = IF nx[2] = Len(ps.batch) + 1 THEN "done" ELSE "loop",
                                     !.res = IF nx[2] = Len(ps.batch) + 1
                                             THEN SendResult(ps.n + 1) ELSE @]
    /\ UNCHANGED <<auxVars, closed, actor, actor_q, worker, closeVars, network_send_wakers, send_woken,
                   freed, recvVars, peerVars>>

\* One round of the loop over the groups: try_reserve finds the channel
\* closed, full, or grants a permit and the group is sent.
PollSendReserve ==
    /\ ps.pc = "loop"
    /\ LET nx == TransmitIterNext(ps.batch, ps.off)
           group == nx[1]
       IN  IF actor = "exited"
           THEN /\ ps' = [ps EXCEPT !.pc = "done", !.res = "NotConnected"]
                /\ UNCHANGED network_q
           ELSE IF Len(network_q) = NetCap
           THEN /\ ps' = [ps EXCEPT !.pc = "full"]
                /\ UNCHANGED network_q
           ELSE /\ network_q' = Append(network_q, group)
                /\ ps' = [ps EXCEPT !.n = @ + Len(group), !.enq = Append(@, group),
                                     !.off = nx[2],
                                     !.pc = IF nx[2] = Len(ps.batch) + 1 THEN "done" ELSE "loop",
                                     !.res = IF nx[2] = Len(ps.batch) + 1
                                             THEN SendResult(ps.n + Len(group)) ELSE @]
    /\ UNCHANGED <<auxVars, closed, actor, actor_q, worker, closeVars, network_send_wakers, send_woken,
                   freed, recvVars, peerVars>>

\* PollSendStore with the store of the waker lost.
PollSendStoreNoWaker ==
    /\ ps.pc = "full"
    /\ ps' = [ps EXCEPT !.pc = "done", !.res = SendResult(ps.n)]
    /\ UNCHANGED <<auxVars, closed, actor, actor_q, worker, closeVars, network_q, network_send_wakers,
                   send_woken, freed, recvVars, peerVars>>

\* The Full arm: the caller's waker replaces the one in the slot, the loop
\* is left and the call returns.
PollSendStore ==
    /\ ps.pc = "full"
    /\ network_send_wakers' = Some("sender")
    /\ ps' = [ps EXCEPT !.pc = "done", !.stored = TRUE, !.res = SendResult(ps.n)]
    /\ UNCHANGED <<auxVars, closed, actor, actor_q, worker, closeVars, network_q, send_woken, freed,
                   recvVars, peerVars>>

\* ------------------------------------------------------------- poll_recv
\* What poll_recv returns after its loop.
RecvResult(num_msgs) == IF num_msgs > 0 THEN "Ready" ELSE "Pending"

\* poll_recv up to the start of the loop over the slots.
PollRecvCall(slots) ==
    /\ pr.pc \in {"idle", "done"}
    /\ pr.res = "Pending" => recv_woken
    /\ recv_woken' = FALSE
    /\ pr' = LET call == [IdleRecv EXCEPT !.slots = slots, !.late = is_closed]
             IN  IF is_closed THEN [call EXCEPT !.pc = "done", !.res = "NotConnected"]
                 ELSE [call EXCEPT !.pc = "loop"]
    /\ UNCHANGED <<auxVars, closed, actor, actor_q, worker, closeVars, sendVars, network_recv_ch,
                   network_recv_wakers, peerVars>>

\* One round of the loop: try_recv finds the queue empty, disconnected, or
\* takes a result; after the last slot the call returns.
PollRecvTry ==
    /\ pr.pc = "loop"
    /\ IF network_recv_ch = <<>>
       THEN /\ pr' = IF actor = "exited"
                     THEN [pr EXCEPT !.pc = "done", !.res = "NotConnected"]
                     ELSE [pr EXCEPT !.pc = "empty"]
            /\ UNCHANGED network_recv_ch
       ELSE /\ network_recv_ch' = Tail(network_recv_ch)
            /\ pr' = IF is_closed
                     THEN [pr EXCEPT !.pc = "done", !.deq = @ + 1, !.res = RecvResult(pr.num)]
                     ELSE IF Head(network_recv_ch) = "Error"
                     THEN [pr EXCEPT !.pc = "done", !.deq = @ + 1, !.res = "Err"]
                     ELSE [pr EXCEPT !.deq = @ + 1, !.num = @ + 1, !.it = @ + 1,
                                     !.pc = IF pr.it + 1 = pr.slots THEN "done" ELSE "loop",
                                     !.res = IF pr.it + 1 = pr.slots THEN "Ready" ELSE @]
    /\ UNCHANGED <<auxVars, closed, actor, actor_q, worker, closeVars, sendVars, network_recv_wakers,
                   recv_woken, peerVars>>

\* The Empty arm: the caller's waker replaces the one in the slot.
PollRecvStore ==
    /\ pr.pc = "empty"
    /\ network_recv_wakers' = Some("receiver")
    /\ pr' = [pr EXCEPT !.pc = "done", !.stored = TRUE, !.res = RecvResult(pr.num)]
    /\ UNCHANGED <<auxVars, closed, actor, actor_q, worker, closeVars, sendVars, network_recv_ch,
                   recv_woken, peerVars>>

\* ------------------------------------------------------- the coordinator
\* Some(transmits) = self.network_receiver.recv(): a group leaves the
\* transmit queue and is sent; capacity is freed.
ActorSendNetwork(send_addrs, udp_ok) ==
    /\ actor = "run"
    /\ network_q # <<>>
    /\ network_q' = Tail(network_q)
    /\ freed' = TRUE
    /\ Commit("SendNetwork", Some(send_addrs),
              send_network(Coord, Head(network_q), send_addrs, udp_ok), <<>>, None)
    /\ UNCHANGED <<auxVars, closed, actor, actor_q, worker, closeVars, ps, network_send_wakers,
                   send_woken, recvVars, net_map>>

\* The send waker is taken and woken once capacity was freed (the code that
\* does so is outside conn.rs).
WakeSender ==
    /\ freed
    /\ freed' = FALSE
    /\ network_send_wakers' = None
    /\ send_woken' = (send_woken \/ IsSome(network_send_wakers))
    /\ UNCHANGED <<auxVars, closed, actor, actor_q, worker, closeVars, ps, network_q, recvVars,
                   peerVars>>

\* A caller of the Conn API other than close() sends a command.
SendCommand ==
    /\ actor # "exited"
    /\ Len(actor_q) < ActorCap
    /\ actor_q' = Append(actor_q, [kind |-> "Other", from |-> 0])
    /\ UNCHANGED <<auxVars, closed, actor, worker, closeVars, sendVars, recvVars, peerVars>>

\* Some(msg) = self.msg_receiver.recv() and handle_actor_message: Shutdown
\* tells both workers to shut down and makes run return, which drops the
\* Actor with the receivers of the command and transmit queues.
ActorHandleMessage ==
    /\ actor = "run"
    /\ actor_q # <<>>
    /\ Head(actor_q).kind \in {"Shutdown", "Other"}
    /\ IF Head(actor_q).kind = "Shutdown"
       THEN /\ actor' = "exited"
            /\ worker' = [w \in DOMAIN worker |-> "stopping"]
            /\ actor_q' = <<>>
            /\ network_q' = <<>>
       ELSE /\ actor_q' = Tail(actor_q)
            /\ UNCHANGED <<actor, worker, network_q>>
    /\ UNCHANGED <<auxVars, closed, closeVars, ps, network_send_wakers, send_woken, freed, recvVars,
                   peerVars>>

\* A worker returns from its run after its Shutdown message.
WorkerExit(w) ==
    /\ worker[w] = "stopping"
    /\ worker' = [worker EXCEPT ![w] = "done"]
    /\ UNCHANGED <<auxVars, closed, actor, actor_q, closeVars, sendVars, recvVars, peerVars>>

\* The coordinator takes a datagram for the upper transport from the UDP
\* worker (IpPacket::Forward) or out of a relay read result (ReceiveDerp):
\* from here to the end of the send below it handles nothing else.
ActorTake ==
    /\ actor = "run"
    /\ actor' = "send"
    /\ UNCHANGED <<auxVars, closed, actor_q, worker, closeVars, sendVars, recvVars, peerVars>>

\* self.derp_recv_sender.send_async(result).await: the coordinator waits
\* for capacity of the receive queue.
ActorForward(result) ==
    /\ actor = "send"
    /\ Len(network_recv_ch) < RecvCap
    /\ network_recv_ch' = Append(network_recv_ch, result)
    /\ actor' = "wake"
    /\ UNCHANGED <<auxVars, closed, actor_q, worker, closeVars, sendVars, pr, network_recv_wakers,
                   recv_woken, peerVars>>

\* wakers.take() and waker.wake() after the send.
ActorWakeReceiver ==
    /\ actor = "wake"
    /\ actor' = "run"
    /\ network_recv_wakers' = None
    /\ recv_woken' = (recv_woken \/ IsSome(network_recv_wakers))
    /\ UNCHANGED <<auxVars, closed, actor_q, worker, closeVars, sendVars, pr, network_recv_ch, peerVars>>


\* ------------------------------------------------- rebind_all, local_addr
\* Conn::rebind_all up to the end of the send: a RebindAll command with the
\* oneshot of the calling task enters the command queue.
RebindCall(t) ==
    /\ rebinds[t].pc \in {"idle", "done"}
    /\ rebinds[t].calls < MaxRebinds
    /\ \A c \in Closers : close[c].pc = "idle"
    /\ actor # "exited"
    /\ Len(actor_q) < ActorCap
    /\ actor_q' = Append(actor_q, [kind |-> "RebindAll", from |-> t])
    /\ rebinds' = [rebinds EXCEPT ![t] = [pc |-> "wait", calls |-> @.calls + 1]]
    /\ UNCHANGED <<closed, actor, worker, closeVars, sendVars, recvVars, peerVars, endpointVars,
                   local_addrs, pconn4, pconn6, la, iterVars>>

\* The coordinator handles RebindAll(s): self.rebind_all().await and then
\* s.send(()), after which the caller's r.await returns.
ActorRebindAll(o) ==
    /\ actor = "run"
    /\ actor_q # <<>>
    /\ Head(actor_q).kind = "RebindAll"
    /\ actor_q' = Tail(actor_q)
    /\ LET ra == rebind_all(AddrState(local_addrs, pconn4, pconn6), o, Coord)
       IN  /\ local_addrs' = ra[1].local_addrs
           /\ pconn4' = ra[1].pconn4
           /\ pconn6' = ra[1].pconn6
           /\ Commit("RebindAll", None, ra[2], <<>>, None)
    /\ rebinds' = [rebinds EXCEPT ![Head(actor_q).from].pc = "done"]
    /\ UNCHANGED <<closed, actor, worker, closeVars, sendVars, recvVars, net_map, endpointVars,
                   la, iterVars>>

\* The upper transport calls the facade's local_addr().
LocalAddr ==
    /\ la' = [called |-> TRUE, addrs |-> local_addrs, res |-> local_addr(local_addrs)]
    /\ UNCHANGED <<closed, actor, facadeVars, peerVars, endpointVars, local_addrs, pconn4,
                   pconn6, rebinds, iterVars>>

\* The state after Conn::new when the IPv6 bind failed or succeeded.
InitAnySockets ==
    /\ closed = FALSE
    /\ actor = "run"
    /\ InitFacade
    /\ InitPeers
    /\ InitEndpoints
    /\ pconn4 \in V4Addrs
    /\ pconn6 \in {None} \cup {Some(a) : a \in V6Addrs}
    /\ local_addrs = <<pconn4, pconn6>>
    /\ rebinds = [t \in Rebinders |-> IdleRebind]
    /\ la = NoLocalAddr
    /\ InitIters

\* SpecRebind: tasks calling rebind_all(), the coordinator rebinding, the
\* relay worker taking its messages, and local_addr().
NextRebind ==
    \/ \E t \in Rebinders : RebindCall(t)
    \/ \E o \in RebindOutcomes : ActorRebindAll(o)
    \/ DerpWorkerTake
    \/ LocalAddr

SpecRebind == InitAnySockets /\ [][NextRebind]_vars

\* ------------------------------------------------------------ iterators
\* One call of TransmitIter::next: None once the offset has reached the end
\* of the batch, otherwise the next group.
TransmitIterStep ==
    /\ ~transmit_it.done
    /\ transmit_it' =
           IF transmit_it.offset = Len(transmit_it.transmits) + 1
           THEN [transmit_it EXCEPT !.done = TRUE]
           ELSE LET r == TransmitIterNext(transmit_it.transmits, transmit_it.offset)
                IN  [transmit_it EXCEPT !.groups = Append(@, r[1]), !.offset = r[2]]
    /\ UNCHANGED <<closed, actor, facadeVars, peerVars, endpointVars, addrVars, split_it, sets_equal,
                   callVars>>

\* One call of PacketSplitIter::next.
PacketSplitIterStep ==
    /\ ~split_it.done
    /\ split_it' =
           LET r == PacketSplitIterNext(split_it.bytes)
           IN  IF IsNone(r[1])
               THEN [split_it EXCEPT !.done = TRUE]
               ELSE [split_it EXCEPT !.items = Append(@, Unwrap(r[1])), !.bytes = r[2]]
    /\ UNCHANGED <<closed, actor, facadeVars, peerVars, endpointVars, addrVars, transmit_it,
                   sets_equal, callVars>>

\* endpoint_sets_equal(xs, ys) returns.
EndpointSetsEqual ==
    /\ IsNone(sets_equal.res)
    /\ sets_equal' =
           [sets_equal EXCEPT !.res = Some(endpoint_sets_equal(sets_equal.xs, sets_equal.ys))]
    /\ UNCHANGED <<closed, actor, facadeVars, peerVars, endpointVars, addrVars, transmit_it,
                   split_it, callVars>>

\* A TransmitIter over any batch, a PacketSplitIter over any buffer, or a
\* call of endpoint_sets_equal on any two lists, repeated entries included.
InitAnyInput ==
    /\ closed = FALSE
    /\ actor = "run"
    /\ InitFacade
    /\ InitPeers
    /\ InitEndpoints
    /\ InitAddrs
    /\ InitCalls
    /\ \/ /\ transmit_it \in {NewTransmitIter(b) : b \in IterBatches}
          /\ split_it = NewPacketSplitIter(<<>>)
          /\ sets_equal = [xs |-> <<>>, ys |-> <<>>, res |-> Some(TRUE)]
       \/ /\ transmit_it = NewTransmitIter(<<>>)
          /\ split_it \in {NewPacketSplitIter(f) : f \in Frames}
          /\ sets_equal = [xs |-> <<>>, ys |-> <<>>, res |-> Some(TRUE)]
       \/ /\ transmit_it = NewTransmitIter(<<>>)
          /\ split_it = NewPacketSplitIter(<<>>)
          /\ sets_equal \in [xs : SeqsUpTo(LocalEndpoints, MaxEndpoints),
                              ys : SeqsUpTo(LocalEndpoints, MaxEndpoints), res : {None}]

\* ------------------------------------------- SpecFallback: relay fallback
\* Conn.derp_map as pick_derp_fallback reads it: no map, or the list
\* region_ids() gives for it.
DerpMaps ==
    {None} \cup {Some(ids) : ids \in {l \in SeqsUpTo(1..NumMapRegions, MaxRegionIds) :
                                        \A i, j \in DOMAIN l : i # j => l[i] # l[j]}}
HomeRegions == 0..NumMapRegions

\* StdRng::seed_from_u64: the state of the generator is a function of the
\* seed alone.
seed_from_u64(seed) == seed

\* SliceRandom::choose on a list that is not empty: an index drawn from
\* the generator.
choose(ids, rng) == ids[(rng % Len(ids)) + 1]

\* pick_derp_fallback seeding the generator anew at every call.
pick_derp_fallback_reseeded(derp_map, my_derp) ==
    IF IsNone(derp_map) THEN 0
    ELSE LET ids == Unwrap(derp_map)
         IN  IF ids = <<>> THEN 0
             ELSE IF my_derp > 0 THEN my_derp
             ELSE choose(ids, seed_from_u64(Len(picked)))

\* Actor::pick_derp_fallback
pick_derp_fallback(derp_map, my_derp) ==
    IF IsNone(derp_map) THEN 0
    ELSE LET ids == Unwrap(derp_map)
         IN  IF ids = <<>> THEN 0
             ELSE IF my_derp > 0 THEN my_derp
             ELSE choose(ids, seed_from_u64(0))

\* update_net_info calling pick_derp_fallback when the report names no
\* preferred relay.
PickDerpFallback(derp_map, my_derp) ==
    /\ actor = "run"
    /\ Len(picked) < MaxPicks
    /\ picked' = Append(picked, [derp_map |-> derp_map, my_derp |-> my_derp,
                                 region |-> pick_derp_fallback(derp_map, my_derp)])
    /\ UNCHANGED <<closed, actor, facadeVars, peerVars, endpointVars, addrVars, transmit_it,
                   split_it, sets_equal, determined, bound>>

NextFallback == \E derp_map \in DerpMaps, my_derp \in HomeRegions : PickDerpFallback(derp_map, my_derp)

SpecFallback == Init /\ [][NextFallback]_vars

\* ------------------------------------ SpecDetermine: determine_endpoints
\* Addresses determine_endpoints meets: the public ones port mapping and
\* STUN report, the unspecified and the particular ones a socket is bound
\* to, and those of the regular and of the loopback interfaces.
Unspecified4 == <<0, 0, 0, 0>>
Unspecified6 == <<0, 0, 0, 0, 0, 0, 0, 0>>
Public4 == <<203, 0, 113, 1>>
Public6 == <<8193, 3512, 0, 0, 0, 0, 0, 1>>
Lan4 == <<10, 0, 0, 1>>
Lan6 == <<65152, 0, 0, 0, 0, 0, 0, 1>>
Loopback4 == <<127, 0, 0, 1>>
Loopback6 == <<0, 0, 0, 0, 0, 0, 0, 1>>
LoopbackIps == {Loopback4, Loopback6}

\* IpAddr::is_unspecified and the address family of an ip.
is_unspecified(ip) == ip \in {Unspecified4, Unspecified6}
IsV4(ip) == Len(ip) = 4

\* What one call of determine_endpoints reads: the port mapping at its
\* start and when asked again, the report of update_net_info, Inner.port,
\* the local addresses of the two sockets (None when local_addr() fails or
\* there is no IPv6 socket) and LocalAddresses::new().
DetermineInputs ==
    [portmap_first : {None, Some([ip |-> Public4, port |-> 1])},
     portmap_again : {None, Some([ip |-> Public4, port |-> 1])},
     global_v4 : {None} \cup {Some([ip |-> Public4, port |-> p]) : p \in 1..NumPublicPorts},
     mapping_varies_by_dest_ip : {None, Some(FALSE), Some(TRUE)},
     port : 0..NumPreferredPorts,
     global_v6 : {None, Some([ip |-> Public6, port |-> 1])},
     local_addr_v4 : {None, Some([ip |-> Unspecified4, port |-> 1]),
                      Some([ip |-> Lan4, port |-> 1])},
     local_addr_v6 : {None, Some([ip |-> Unspecified6, port |-> 2]),
                      Some([ip |-> Lan6, port |-> 2])},
     regular : {<<>>, <<Lan4>>, <<Lan6>>, <<Lan4, Lan6>>},
     loopback : {<<>>, <<Loopback4, Loopback6>>}]

\* add_addr! pushing the address whether or not it was added before.
add_addr_again(eps, ipp, et) == Append(eps, [addr |-> ipp, typ |-> et])

\* The macro add_addr!: the address is pushed, with how it was found,
\* unless `already` has it; `already` has the addresses of eps.
add_addr(eps, ipp, et) ==
    IF \E i \in DOMAIN eps : eps[i].addr = ipp THEN eps
    ELSE Append(eps, [addr |-> ipp, typ |-> et])

\* The loop over the interface addresses: each one is added with the port
\* of the socket of its family, when that socket is bound to the
\* unspecified address.
RECURSIVE AddLocalIps(_, _, _, _)
AddLocalIps(eps, ips, v4_port, v6_port) ==
    IF ips = <<>> THEN eps
    ELSE LET ip == Head(ips)
             port == IF IsV4(ip) THEN v4_port ELSE v6_port
         IN  AddLocalIps(IF IsSome(port)
                         THEN add_addr(eps, [ip |-> ip, port |-> Unwrap(port)], "Local")
                         ELSE eps,
                         Tail(ips), v4_port, v6_port)

\* Actor::determine_endpoints, after update_net_info returned its report.
determine_endpoints(in) ==
    LET portmap_ext == IF IsNone(in.portmap_first) THEN in.portmap_again
                       ELSE in.portmap_first
        e1 == IF IsSome(portmap_ext) THEN add_addr(<<>>, Unwrap(portmap_ext), "Portmapped")
              ELSE <<>>
        e2 == IF IsSome(in.global_v4)
              THEN LET global_v4 == Unwrap(in.global_v4)
                       stun == add_addr(e1, global_v4, "Stun")
                   IN  IF in.mapping_varies_by_dest_ip = Some(TRUE) /\ in.port # 0
                       THEN add_addr(stun, [global_v4 EXCEPT !.port = in.port],
                                     "Stun4LocalPort")
                       ELSE stun
              ELSE e1
        e3 == IF IsSome(in.global_v6) THEN add_addr(e2, Unwrap(in.global_v6), "Stun") ELSE e2
        is_unspecified_v4 ==
            IsSome(in.local_addr_v4) /\ is_unspecified(Unwrap(in.local_addr_v4).ip)
        is_unspecified_v6 ==
            IsSome(in.local_addr_v6) /\ is_unspecified(Unwrap(in.local_addr_v6).ip)
        ips == IF in.regular = <<>> /\ e3 = <<>> THEN in.loopback ELSE in.regular
        v4_port == IF is_unspecified_v4 THEN Some(Unwrap(in.local_addr_v4).port) ELSE None
        v6_port == IF is_unspecified_v6 THEN Some(Unwrap(in.local_addr_v6).port) ELSE None
        e4 == IF is_unspecified_v4 \/ is_unspecified_v6
              THEN AddLocalIps(e3, ips, v4_port, v6_port)
              ELSE e3
        e5 == IF ~is_unspecified_v4 /\ IsSome(in.local_addr_v4)
              THEN add_addr(e4, Unwrap(in.local_addr_v4), "Local")
              ELSE e4
    IN  IF ~is_unspecified_v6 /\ IsSome(in.local_addr_v6)
        THEN add_addr(e5, Unwrap(in.local_addr_v6), "Local")
        ELSE e5

\* update_endpoints calling determine_endpoints.
DetermineEndpoints(in) ==
    /\ actor = "run"
    /\ IsNone(determined)
    /\ determined' = Some([in |-> in, eps |-> determine_endpoints(in)])
    /\ UNCHANGED <<closed, actor, facadeVars, peerVars, endpointVars, addrVars, transmit_it,
                   split_it, sets_equal, picked, bound>>

NextDetermine == \E in \in DetermineInputs : DetermineEndpoints(in)

SpecDetermine == Init /\ [][NextDetermine]_vars

\* ------------------------------------------------------- SpecBind: bind
\* The preferred ports bind is called with: the lowest and the highest
\* values of a u16.
BindPorts == 0..NumLowPorts \cup (U16Max - NumHighPorts)..U16Max

\* port + 1 on u16: with overflow checks (debug builds) a sum above
\* u16::MAX panics, without them (release builds) it wraps.
AddU16(a, b, overflow_checks) ==
    IF a + b > U16Max /\ overflow_checks THEN None
    ELSE Some((a + b) % (U16Max + 1))

\* bind: the port asked of the IPv6 socket, then the port asked of the
\* IPv4 socket; a panic in the sum ends the call before either is asked.
bind(port, overflow_checks) ==
    LET ip6_port == IF port # 0 THEN AddU16(port, 1, overflow_checks) ELSE Some(0)
    IN  IF IsNone(ip6_port) THEN [port |-> port, panicked |-> TRUE, v6 |-> None, v4 |-> None]
        ELSE [port |-> port, panicked |-> FALSE, v6 |-> ip6_port, v4 |-> Some(port)]

\* Conn::new calling bind(opts.port).
Bind(port, overflow_checks) ==
    /\ actor = "run"
    /\ IsNone(bound)
    /\ bound' = Some(bind(port, overflow_checks))
    /\ UNCHANGED <<closed, actor, facadeVars, peerVars, endpointVars, addrVars, transmit_it,
                   split_it, sets_equal, picked, determined>>

NextBind == \E port \in BindPorts, overflow_checks \in BOOLEAN : Bind(port, overflow_checks)

SpecBind == Init /\ [][NextBind]_vars

\* SpecIters: the two iterators run to their end, and endpoint_sets_equal
\* is applied to its two lists.
NextIters ==
    \/ TransmitIterStep
    \/ PacketSplitIterStep
    \/ EndpointSetsEqual

SpecIters == InitAnyInput /\ [][NextIters]_vars

\* ------------------------------------------------------ specifications
\* SpecClose: the calls of close(), the command queue and the tasks.
\* The steps of the calls of close() by the tasks in S, and of the tasks
\* they wait for.
CloseSteps(S) ==
    \/ \E c \in S : CloseCall(c)
    \/ \E c \in S : CloseSend(c)
    \/ \E c \in S : CloseStore(c)
    \/ \E c \in S : CloseLock(c)
    \/ \E c \in S : CloseWait(c)
    \/ ActorHandleMessage
    \/ \E w \in {"derp", "udp"} : WorkerExit(w)

NextClose ==
    \/ CloseSteps(Closers)
    \/ SendCommand

SpecClose == Init /\ [][NextClose]_vars

\* SpecSend: poll_send, the transmit queue and its waker, with one task
\* calling close().
NextSend ==
    \/ \E transmits \in Batches : PollSendCall(transmits)
    \/ PollSendReserve
    \/ PollSendStore
    \/ ActorSendNetwork(SendAddrsErr, TRUE)
    \/ WakeSender
    \/ CloseSteps({1})

SpecSend == Init /\ [][NextSend]_vars /\ WF_vars(WakeSender)

\* SpecFacade: both polls, the coordinator and one task calling close(),
\* for batches of at most one datagram.
NextFacade ==
    \/ \E transmits \in SeqsUpTo(Dests, 1) : PollSendCall(transmits)
    \/ PollSendReserve
    \/ PollSendStore
    \/ \E slots \in 1..MaxSlots : PollRecvCall(slots)
    \/ PollRecvTry
    \/ PollRecvStore
    \/ ActorSendNetwork(SendAddrsErr, TRUE)
    \/ WakeSender
    \/ ActorTake
    \/ \E result \in {"Ok", "Error"} : ActorForward(result)
    \/ ActorWakeReceiver
    \/ CloseSteps({1})

SpecFacade == Init /\ [][NextFacade]_vars

\* SpecTransmit: poll_send filling the transmit queue and the coordinator
\* sending each batch on the paths the endpoint of its destination selects.
NextTransmit ==
    \/ \E nm \in ShortMaps : SetNetworkMap(nm)
    \/ \E transmits \in SeqsUpTo(Dests, 1) : PollSendCall(transmits)
    \/ PollSendReserve
    \/ PollSendStore
    \/ WakeSender
    \/ \E send_addrs \in SendAddrs, udp_ok \in BOOLEAN : ActorSendNetwork(send_addrs, udp_ok)
    \/ DerpWorkerTake

SpecTransmit == Init /\ [][NextTransmit]_vars

\* SpecShutdown: rebind_all() from several tasks, poll_recv, datagrams
\* arriving for the upper transport and one task calling close().  The
\* select loop of the coordinator picks among its ready arms at random, so
\* a command that is ready again and again is eventually handled; a task
\* that can take its next step eventually does; the upper transport polls
\* again whenever it was woken or was handed datagrams.  Nothing obliges
\* datagrams to arrive, nor anyone to call rebind_all() or close().
NextShutdown ==
    \/ \E t \in Rebinders : RebindCall(t)
    \/ \E o \in KeepPortOutcomes : ActorRebindAll(o)
    \/ DerpWorkerTake
    \/ ActorTake
    \/ ActorForward("Ok")
    \/ ActorWakeReceiver
    \/ \E slots \in 1..MaxSlots : PollRecvCall(slots)
    \/ PollRecvTry
    \/ PollRecvStore
    \/ CloseSteps({1})

FairShutdown ==
    /\ SF_vars(ActorHandleMessage)
    /\ SF_vars(\E o \in KeepPortOutcomes : ActorRebindAll(o))
    /\ WF_vars(ActorForward("Ok"))
    /\ WF_vars(ActorWakeReceiver)
    /\ WF_vars(DerpWorkerTake)
    /\ \A w \in {"derp", "udp"} : WF_vars(WorkerExit(w))
    /\ WF_vars(\E slots \in 1..MaxSlots : PollRecvCall(slots))
    /\ WF_vars(PollRecvTry)
    /\ WF_vars(PollRecvStore)
    /\ WF_vars(CloseSend(1) \/ CloseStore(1) \/ CloseLock(1) \/ CloseWait(1))

SpecShutdown == Init /\ [][NextShutdown]_vars /\ FairShutdown

\* SpecSelfSend: EnqueueCallMeMaybe with endpoints that stay stale, next to
\* tasks that send RebindAll to the same command queue, under fair
\* scheduling of the coordinator.
NextSelfSend ==
    \/ \E nm \in ShortMaps : SetNetworkMap(nm)
    \/ \E derp_addr \in EnqueueRelayAddrs, endpoint_id \in 0..(MaxAlloc - 1) :
           EnqueueCallMeMaybe(derp_addr, endpoint_id)
    \/ EnqueueCallMeMaybeSend
    \/ ReStun("refresh-for-peering", TRUE)
    \/ UpdateEndpoints(None, CHOOSE o \in KeepPortOutcomes : TRUE, DetermineErr)
    \/ EndpointsUpdateNone
    \/ \E t \in Rebinders : RebindCall(t)
    \/ \E o \in KeepPortOutcomes : ActorRebindAll(o)

FairSelfSend ==
    /\ WF_vars(EnqueueCallMeMaybeSend)
    /\ WF_vars(ReStun("refresh-for-peering", TRUE))
    /\ WF_vars(\E o \in KeepPortOutcomes : ActorRebindAll(o))

SpecSelfSend == Init /\ [][NextSelfSend]_vars /\ FairSelfSend

\* ================================================================ claims
\* C1: a call of close() that starts after some call of close() has
\* returned Ok returns Ok without sending Shutdown to the coordinator and
\* without waiting on a task.
CloseIdempotent ==
    \A c \in Closers :
        close[c].late =>
            /\ close[c].pc = "done"
            /\ close[c].res = "Ok"
            /\ ~close[c].sent
            /\ ~close[c].waited

\* A later call has returned, after a first call that sent Shutdown and
\* waited for the tasks.
CloseIdempotentWitness ==
    \E c \in Closers :
        /\ close[c].late /\ close[c].pc = "done" /\ close[c].res = "Ok"
        /\ actor_tasks = <<>>
        /\ actor = "exited"

\* C2: a poll_send or poll_recv that starts when the closed flag is set
\* returns NotConnected; poll_send enqueues nothing and poll_recv dequeues
\* nothing.
NotConnectedAfterClose ==
    /\ ps.late => ps.pc = "done" /\ ps.res = "NotConnected" /\ ps.enq = <<>> /\ ps.n = 0
    /\ pr.late => pr.pc = "done" /\ pr.res = "NotConnected" /\ pr.deq = 0 /\ pr.num = 0

\* Both polls have returned NotConnected for calls made after the flag was
\* set, poll_send for a batch with a datagram and poll_recv with a result
\* waiting in the receive queue.
NotConnectedAfterCloseWitness ==
    /\ closed
    /\ ps.late /\ ps.res = "NotConnected" /\ ps.batch # <<>>
    /\ pr.late /\ pr.res = "NotConnected" /\ network_recv_ch # <<>>

\* C3: for a non-empty batch polled while the flag is not set, the groups
\* poll_send has put on the transmit queue are runs of one destination
\* that make up a prefix of the batch, each run as long as the batch allows,
\* and n counts their datagrams; Ready(n) has n > 0; Pending is returned
\* only with nothing enqueued and the waker stored (it is in the slot until
\* it is woken); NotConnected is returned only once the coordinator has
\* dropped the queue.
SendCountsEnqueuedPrefix ==
    (ps.batch # <<>> /\ ~ps.late) =>
        LET flat == Flatten(ps.enq)
        IN  /\ IsPrefix(flat, ps.batch)
            /\ \A i \in DOMAIN ps.enq :
                   /\ ps.enq[i] # <<>>
                   /\ \A j \in DOMAIN ps.enq[i] : ps.enq[i][j] = ps.enq[i][1]
                   /\ i > 1 => ps.enq[i][1] # ps.enq[i - 1][1]
            /\ (ps.enq # <<>> /\ Len(flat) < Len(ps.batch)) =>
                   ps.batch[Len(flat) + 1] # flat[Len(flat)]
            /\ ps.n = Len(flat)
            /\ ps.pc = "done" =>
                   \/ ps.res = "Ready" /\ ps.n > 0
                   \/ /\ ps.res = "Pending"
                      /\ ps.enq = <<>>
                      /\ ps.stored
                      /\ IsSome(network_send_wakers) \/ send_woken
                   \/ ps.res = "NotConnected" /\ actor = "exited"

\* poll_send has returned Ready(2) for a batch of three datagrams to two
\* destinations: the first run went on the queue, the second found it full.
SendCountsEnqueuedPrefixWitness ==
    /\ ps.pc = "done" /\ ps.res = "Ready" /\ ~ps.late
    /\ Len(ps.batch) = 3 /\ ps.n = 2 /\ Len(ps.enq) = 1 /\ ps.stored

\* C4: when poll_send has returned Pending for a full transmit queue and
\* the coordinator has taken a group off the queue, the sender is woken.
PendingSenderWoken ==
    (ps.pc = "done" /\ ps.res = "Pending" /\ freed) ~> send_woken

\* The sender was woken after poll_send returned Pending.
PendingSenderWokenWitness ==
    ps.pc = "done" /\ ps.res = "Pending" /\ ps.stored /\ send_woken /\ ~closed

\* C5: every Ok result the coordinator's last step placed in the receive
\* queue carries the mapped address of an endpoint in the peer table, and
\* no UDP address or relay address.
RecvAddrIsMapped ==
    \A i \in DOMAIN out.enq :
        out.enq[i].ok =>
            /\ Unwrap(out.enq[i].addr) \in MappedAddrsOf(peer_map)
            /\ Unwrap(out.enq[i].addr) \notin SocketAddrs

\* A datagram that arrived over UDP was placed in the receive queue.
RecvAddrIsMappedWitness ==
    out.op = "ForwardIp" /\ out.enq # <<>> /\ out.enq[1].ok

\* C6 as claimed: every mapped address handed to the upper transport is
\* the mapped address of an endpoint in the peer table ever after.
ReturnedAddrStaysInTable == returned \subseteq MappedAddrsOf(peer_map)

\* C6 as amended: a mapped address handed to the upper transport leaves
\* the peer table only in a SetNetworkMap on the open connection whose peer
\* list does not name the key of its endpoint.
ReturnedAddrLeavesOnlyByNetworkMap ==
    [][\A a \in returned :
          (a \in MappedAddrsOf(peer_map) /\ a \notin MappedAddrsOf(peer_map')) =>
              /\ out'.op = "SetNetworkMap"
              /\ ~closed
              /\ IsSome(net_map')
              /\ net_map' # net_map
              /\ LET id == peer_map.by_quic_mapped_addr[a]
                     peers == Unwrap(net_map').peers
                 IN  peer_map.by_id[id].public_key \notin {peers[i].key : i \in DOMAIN peers}]_vars

\* A mapped address that was handed to the upper transport is no longer in
\* the peer table.
ReturnedAddrLeavesWitness ==
    \E a \in returned : a \notin MappedAddrsOf(peer_map) /\ out.op = "SetNetworkMap"

\* C7: the mapped addresses generated in the process are pairwise distinct,
\* the i-th is built from the counter value i - 1, the counter is the number
\* generated, and the endpoints of the table hold distinct generated
\* addresses.
MappedAddrsNeverReused ==
    /\ \A i, j \in DOMAIN allocated : i # j => allocated[i] # allocated[j]
    /\ \A i \in DOMAIN allocated :
           allocated[i].ip[9] = i - 1 /\ allocated[i].port = MAPPED_PORT
    /\ ADDR_COUNTER = Len(allocated)
    /\ \A i \in DOMAIN peer_map.by_id :
           /\ \E n \in DOMAIN allocated : allocated[n] = peer_map.by_id[i].quic_mapped_addr
           /\ \A j \in DOMAIN peer_map.by_id :
                  i # j => peer_map.by_id[i].quic_mapped_addr # peer_map.by_id[j].quic_mapped_addr

\* Both keys have an endpoint and the first endpoint created is gone: a
\* peer was removed and inserted again.
MappedAddrsNeverReusedWitness ==
    /\ DOMAIN peer_map.by_id = {1, 2}
    /\ KeysOf(peer_map) = {1, 2}
    /\ Len(allocated) = 3

\* C8: a SetNetworkMap whose peer list is that of the network map stored
\* before leaves the peer table with its indices, the counter and the
\* generated addresses as they were, and emits nothing.  (A step that
\* writes out with the operation SetNetworkMap is a SetNetworkMap step.)
SetNetworkMapIdempotent ==
    [][(out' # out /\ out'.op = "SetNetworkMap" /\ IsSome(net_map) /\ net_map' = net_map) =>
          /\ peer_map' = peer_map
          /\ ADDR_COUNTER' = ADDR_COUNTER
          /\ allocated' = allocated
          /\ out'.sent = <<>> /\ out'.probes = {} /\ out'.enq = <<>>]_vars

\* On the open connection the last step was a SetNetworkMap, the list
\* names one peer and the table holds two endpoints: the list was the one
\* stored before, or the endpoint it does not name would be gone.
SetNetworkMapIdempotentWitness ==
    /\ out.op = "SetNetworkMap" /\ ~closed
    /\ IsSome(net_map) /\ Len(Unwrap(net_map).peers) = 1
    /\ node_count(peer_map) = 2

\* C9 as claimed: the step that handled a Ping whose box opened (on the
\* open connection) sent a Pong with the Ping's transaction id and with src
\* the arrival address, to the arrival address on the arrival path.
EveryPingGetsPong ==
    LET d == Unwrap(out.disco)
    IN  (/\ IsSome(out.disco)
         /\ ~closed
         /\ d.sealed_box.opens /\ d.sealed_box.parses
         /\ d.sealed_box.msg.kind = "ping") =>
            \E i \in DOMAIN out.sent :
                /\ out.sent[i].msg = Pong(d.sealed_box.msg.tx_id, d.src)
                /\ out.sent[i].dst = d.src

\* C9 as amended: the step that handles, on the open connection, a Ping
\* whose box opens and whose transaction id is not the one last received
\* from the same address by the endpoint of its peer, sends a Pong with the
\* same transaction id and src the arrival address to the arrival address:
\* a UDP write for a UDP source, a try-send to the relay worker addressed to
\* the relay source key for a relay frame.
FreshPingGetsPong ==
    [][LET d == Unwrap(out'.disco)
           dst_key == IF IsSome(d.derp_node_src) THEN Unwrap(d.derp_node_src) ELSE d.source
           found == endpoint_for_node_key(peer_map, dst_key)
           duplicate ==
               /\ IsSome(found)
               /\ d.src \in DOMAIN peer_map.by_id[Unwrap(found)].endpoint_state
               /\ peer_map.by_id[Unwrap(found)].endpoint_state[d.src]
                      = Some(d.sealed_box.msg.tx_id)
       IN  (/\ IsSome(out'.disco)
            /\ ~closed
            /\ d.sealed_box.opens /\ d.sealed_box.parses
            /\ d.sealed_box.msg.kind = "ping"
            /\ ~duplicate) =>
               \E i \in DOMAIN out'.sent :
                   /\ out'.sent[i].msg = Pong(d.sealed_box.msg.tx_id, d.src)
                   /\ out'.sent[i].dst = d.src
                   /\ out'.sent[i].via = (IF d.src.ip = DERP_MAGIC_IP THEN "derp" ELSE "udp")
                   /\ d.src.ip = DERP_MAGIC_IP => out'.sent[i].key = Some(dst_key)]_vars

\* A Ping that arrived in a relay frame from a relay source other than its
\* sender was answered through the relay worker.
FreshPingGetsPongWitness ==
    /\ out.op = "ReceiveDerp" /\ IsSome(out.disco)
    /\ Unwrap(out.disco).sealed_box.msg.kind = "ping"
    /\ Unwrap(out.disco).derp_node_src # Some(Unwrap(out.disco).source)
    /\ out.sent # <<>> /\ out.sent[1].ok /\ out.sent[1].msg.kind = "pong"

\* C10: the step that handles a CallMeMaybe which arrived over UDP or
\* without a relay source key leaves the peer table as it was and asks for
\* no probe and sends nothing.
CallMeMaybeNotViaRelayDropped ==
    [][LET d == Unwrap(out'.disco)
       IN  (/\ IsSome(out'.disco)
            /\ d.sealed_box.opens /\ d.sealed_box.parses
            /\ d.sealed_box.msg.kind = "call_me_maybe"
            /\ d.src.ip # DERP_MAGIC_IP \/ IsNone(d.derp_node_src)) =>
               /\ peer_map' = peer_map
               /\ out'.probes = {}
               /\ out'.sent = <<>>]_vars

\* A CallMeMaybe arrived over UDP from the address of a peer that has an
\* endpoint, on the open connection.
CallMeMaybeNotViaRelayDroppedWitness ==
    /\ out.op = "Disco" /\ IsSome(out.disco) /\ ~closed
    /\ Unwrap(out.disco).sealed_box.parses
    /\ Unwrap(out.disco).sealed_box.msg.kind = "call_me_maybe"
    /\ IsSome(endpoint_for_ip_port(peer_map, Unwrap(out.disco).src))
    /\ IsSome(endpoint_for_node_key(peer_map, Unwrap(out.disco).source))

\* C11 as claimed: the step that handled, on the open connection, a
\* CallMeMaybe that arrived over UDP incremented the metric
\* RecvDiscoCallMeMaybeBadDisco.
CallMeMaybeOverUdpCountsBadDisco ==
    LET d == Unwrap(out.disco)
    IN  (/\ IsSome(out.disco)
         /\ out.op = "Disco"
         /\ d.sealed_box.msg.kind = "call_me_maybe"
         /\ "RecvDiscoCallMeMaybe" \in out.inc
         /\ d.src.ip # DERP_MAGIC_IP) =>
            "RecvDiscoCallMeMaybeBadDisco" \in out.inc

\* C13 as claimed: the step that handles, on the open connection, a Ping
\* whose box opens from a key that has no endpoint creates an endpoint, and
\* afterwards the key and the Ping's source address both resolve to it.
UnknownKeyPingCreatesEndpoint ==
    [][LET d == Unwrap(out'.disco)
           id == endpoint_for_node_key(peer_map', d.source)
       IN  (/\ out' # out
            /\ IsSome(out'.disco)
            /\ d.sealed_box.msg.kind = "ping"
            /\ "RecvDiscoPing" \in out'.inc
            /\ IsNone(endpoint_for_node_key(peer_map, d.source))) =>
               /\ IsSome(id)
               /\ Unwrap(id) \notin DOMAIN peer_map.by_id
               /\ endpoint_for_ip_port(peer_map', d.src) = id]_vars

\* C18 as claimed: whatever the interleaving of the calls of close(), at
\* most one of them sends Shutdown to the coordinator, and every call that
\* has returned has returned Ok.
ConcurrentCloseOneShutdown ==
    /\ Cardinality({c \in Closers : close[c].sent}) <= 1
    /\ \A c \in Closers : close[c].pc = "done" => close[c].res = "Ok"

\* C12 as claimed: an address that was indexed because a Pong from it
\* matched an outstanding Ping of an endpoint resolves to that endpoint ever
\* after.
PongIndexedAddrStays ==
    \A p \in ponged : endpoint_for_ip_port(peer_map, p[1]) = Some(p[2])

\* C12 as amended: the step that handles, on the open connection, a Pong
\* from a sender that has an endpoint and whose transaction id is that of
\* an outstanding Ping of the endpoint indexes the Pong's source address to
\* that endpoint; and an address indexed so stops resolving to the endpoint
\* only in a SetNetworkMap on the open connection that deletes the endpoint
\* or lists the address for another peer, or in the handling of a Ping or
\* Pong that arrived from the same address from another peer, to whose
\* endpoint the address then resolves.
PongIndexesAddrUntilReindexed ==
    [][LET d == Unwrap(out'.disco)
           found == endpoint_for_node_key(peer_map, d.source)
       IN  /\ (/\ out' # out
                /\ IsSome(out'.disco)
                /\ d.sealed_box.msg.kind = "pong"
                /\ "RecvDiscoPong" \in out'.inc
                /\ IsSome(found)
                /\ d.sealed_box.msg.tx_id \in DOMAIN peer_map.by_id[Unwrap(found)].sent_ping) =>
                   /\ endpoint_for_ip_port(peer_map', d.src) = found
                   /\ <<d.src, Unwrap(found)>> \in ponged'
           /\ \A p \in ponged :
                  (/\ endpoint_for_ip_port(peer_map, p[1]) = Some(p[2])
                   /\ endpoint_for_ip_port(peer_map', p[1]) # Some(p[2])) =>
                      LET key == peer_map.by_id[p[2]].public_key
                      IN  \/ /\ out'.op = "SetNetworkMap"
                             /\ ~closed
                             /\ net_map' # net_map
                             /\ LET peers == Unwrap(net_map').peers
                                IN  \/ p[2] \notin DOMAIN peer_map'.by_id
                                    \/ \E i \in DOMAIN peers :
                                           /\ peers[i].key # key
                                           /\ \E j \in DOMAIN peers[i].endpoints :
                                                  peers[i].endpoints[j] = p[1]
                          \/ /\ out'.op = "Disco"
                             /\ ~closed
                             /\ IsSome(out'.disco)
                             /\ d.src = p[1]
                             /\ d.sealed_box.msg.kind \in {"ping", "pong"}
                             /\ d.source # key
                             /\ IsSome(endpoint_for_node_key(peer_map', d.source))
                             /\ endpoint_for_ip_port(peer_map', p[1])
                                    = endpoint_for_node_key(peer_map', d.source)]_vars

\* A Pong that matched an outstanding Ping indexed its source address, and
\* the address now resolves to the endpoint of another peer.
PongIndexesAddrWitness ==
    \E p \in ponged :
        /\ p[2] \in DOMAIN peer_map.by_id
        /\ IsSome(endpoint_for_ip_port(peer_map, p[1]))
        /\ endpoint_for_ip_port(peer_map, p[1]) # Some(p[2])

\* C14: the callback is invoked only by an endpoint refresh whose
\* determine_endpoints returned Ok with a list that differs, as a set, from
\* the list recorded before, and it is passed that list; with a callback
\* registered such a refresh does invoke it; and the recorded list changes
\* only in such a refresh, to the new list: a refresh that fails or that
\* yields the recorded set invokes nothing and leaves the recorded list.
CallbackOnlyOnChangedEndpoints ==
    [][LET new == refresh'.result.endpoints
           differs == {new[i] : i \in DOMAIN new}
                          # {last_endpoints[i] : i \in DOMAIN last_endpoints}
           changing == /\ refresh'.done
                       /\ refresh'.result.ok
                       /\ refresh'.prior = last_endpoints
                       /\ differs
       IN  /\ on_endpoints_calls' # on_endpoints_calls =>
                  /\ changing
                  /\ on_endpoints
                  /\ on_endpoints_calls' = Append(on_endpoints_calls, new)
           /\ last_endpoints' # last_endpoints =>
                  /\ changing
                  /\ last_endpoints' = new
           /\ (refresh' # refresh /\ changing) =>
                  /\ last_endpoints' = new
                  /\ on_endpoints => on_endpoints_calls' = Append(on_endpoints_calls, new)]_vars

\* The callback was invoked, and the last refresh returned the recorded
\* endpoints in another order.
CallbackOnlyOnChangedWitness ==
    /\ on_endpoints_calls # <<>>
    /\ refresh.done /\ refresh.result.ok
    /\ refresh.result.endpoints # last_endpoints
    /\ Len(refresh.result.endpoints) = Len(last_endpoints)
    /\ refresh.prior = last_endpoints
    /\ Len(on_endpoints_calls) = 1

\* C15: the facade's local_addr() always returns an IPv6 address: the cached
\* IPv6 socket address when there is one, otherwise the IPv4 socket address
\* as an IPv4-mapped IPv6 address with the IPv4 port; also after rebinds,
\* failed ones included.
LocalAddrAlwaysIpv6 ==
    la.called =>
        /\ la.res.fam = "v6"
        /\ Len(la.res.ip) = 8
        /\ IF IsSome(la.addrs[2])
           THEN la.res = Unwrap(la.addrs[2])
           ELSE /\ la.addrs[1].fam = "v4"
                /\ la.res.port = la.addrs[1].port
                /\ SubSeq(la.res.ip, 1, 6) = <<0, 0, 0, 0, 0, 65535>>
                /\ la.res.ip[7] = la.addrs[1].ip[1] * 256 + la.addrs[1].ip[2]
                /\ la.res.ip[8] = la.addrs[1].ip[3] * 256 + la.addrs[1].ip[4]

\* local_addr() was called after a rebind in which the IPv6 rebind failed
\* on a connection that has an IPv6 socket: the cached IPv6 address is gone.
LocalAddrAlwaysIpv6Witness ==
    /\ la.called
    /\ la.addrs = local_addrs
    /\ IsSome(pconn6)
    /\ IsNone(local_addrs[2])
    /\ \E t \in Rebinders : rebinds[t].pc = "done"
    /\ la.res.port = pconn4.port

\* C16: a call of close() on an open connection eventually returns,
\* whatever the state of the bounded queues at the time of the call.
CloseEventuallyReturns ==
    (close[1].pc = "send") ~> (close[1].pc = "done")

\* C17: while several tasks call rebind_all(), poll_recv returns only
\* Pending or Ready(Ok) until close() is called, every call of rebind_all()
\* receives its reply, and a close() issued afterwards succeeds.
RebindStress ==
    /\ [](close[1].pc = "idle" => pr.res \in {"none", "Pending", "Ready"})
    /\ \A t \in Rebinders :
           (rebinds[t].pc = "wait") ~> (rebinds[t].pc = "done" \/ close[1].pc # "idle")
    /\ (close[1].pc = "send" /\ \A t \in Rebinders : rebinds[t].pc # "wait")
           ~> (close[1].res = "Ok")

\* C19: grouping a batch by destination preserves count and order: the
\* groups are non-empty, each has a single destination, adjacent groups have
\* different destinations, and their concatenation is the batch; the batch
\* with destinations 1,2,2,1,3,3 yields four groups of sizes 1, 2, 1, 2.
GroupingPreservesBatch ==
    LET g == transmit_it.groups
        b == transmit_it.transmits
    IN  /\ \A i \in DOMAIN g : g[i] # <<>> /\ \A j \in DOMAIN g[i] : g[i][j] = g[i][1]
        /\ \A i \in 1..(Len(g) - 1) : g[i][1] # g[i + 1][1]
        /\ IsPrefix(Flatten(g), b)
        /\ transmit_it.done => Flatten(g) = b
        /\ (transmit_it.done /\ b = <<1, 2, 2, 1, 3, 3>>) =>
               [i \in DOMAIN g |-> Len(g[i])] = <<1, 2, 1, 2>>

\* The iterator over the batch 1,2,2,1,3,3 has ended after four groups.
GroupingPreservesBatchWitness ==
    /\ transmit_it.done
    /\ transmit_it.transmits = <<1, 2, 2, 1, 3, 3>>
    /\ Len(transmit_it.groups) = 4

\* C20: PacketSplitIter returns the complete items of the buffer, each once
\* and in order, and then ends; when a truncated tail follows them (fewer
\* than two length bytes, or a length beyond the bytes left) it returns the
\* complete items, one UnexpectedEof, and then ends.  An item is encoded
\* as its length in 16 bits, low byte first, followed by its bytes.
SplitReturnsEachItemOnce ==
    LET RECURSIVE Encode(_)
        Encode(items) ==
            IF items = <<>> THEN <<>>
            ELSE <<Len(Head(items)) % 256, Len(Head(items)) \div 256>>
                     \o Head(items) \o Encode(Tail(items))
        got == split_it.items
        oks == {i \in DOMAIN got : got[i].ok}
        items == [i \in 1..Cardinality(oks) |-> got[i].item]
        enc == Encode(items)
        tail == SubSeq(split_it.input, Len(enc) + 1, Len(split_it.input))
        truncated == \/ Len(tail) = 1
                     \/ Len(tail) >= 2 /\ tail[1] + 256 * tail[2] > Len(tail) - 2
    IN  /\ oks = 1..Cardinality(oks)
        /\ Len(got) <= Cardinality(oks) + 1
        /\ IsPrefix(enc, split_it.input)
        /\ Len(got) > Cardinality(oks) => truncated /\ split_it.bytes = <<>>
        /\ split_it.done =>
               /\ tail = <<>> => got = [i \in DOMAIN items |-> SplitOk(items[i])]
               /\ tail # <<>> =>
                      /\ truncated
                      /\ got = Append([i \in DOMAIN items |-> SplitOk(items[i])], SplitErr)

\* The iterator has ended on a buffer of two items, the first not empty,
\* and a truncated tail.
SplitReturnsEachItemOnceWitness ==
    /\ split_it.done
    /\ Len(split_it.items) = 3
    /\ split_it.items[1].ok /\ split_it.items[1].item # <<>>
    /\ split_it.items[2].ok
    /\ ~split_it.items[3].ok

\* C21: endpoint_sets_equal ignores ordering: it returns true exactly when
\* the two lists contain the same set of endpoints, so a permutation of a
\* list compares equal to it, and lists compare unequal when some endpoint
\* occurs in only one of them.
EndpointSetsEqualIsSetEquality ==
    LET xs == sets_equal.xs
        ys == sets_equal.ys
        res == Unwrap(sets_equal.res)
    IN  IsSome(sets_equal.res) =>
            /\ res <=> ({xs[i] : i \in DOMAIN xs} = {ys[i] : i \in DOMAIN ys})
            /\ (\E e \in LocalEndpoints :
                    (\E i \in DOMAIN xs : xs[i] = e) # (\E i \in DOMAIN ys : ys[i] = e))
                   => ~res
            /\ (/\ Len(xs) = Len(ys)
                /\ \E perm \in [DOMAIN xs -> DOMAIN xs] :
                       /\ \A i, j \in DOMAIN xs : i # j => perm[i] # perm[j]
                       /\ \A i \in DOMAIN xs : ys[i] = xs[perm[i]])
                   => res

\* The call returned true for two lists of different entries in different
\* order.
EndpointSetsEqualWitness ==
    /\ sets_equal.res = Some(TRUE)
    /\ Len(sets_equal.xs) = 2
    /\ Len(sets_equal.ys) = 2
    /\ sets_equal.xs[1] # sets_equal.xs[2]
    /\ sets_equal.ys[1] = sets_equal.xs[2]
    /\ sets_equal.ys[2] = sets_equal.xs[1]

\* C22: at most one endpoint refresh is marked running; want_update is
\* empty or holds the reason of the most recent re_stun that arrived while
\* a refresh was marked running, and it is non-empty only while a refresh
\* is marked running.
WantUpdateIsMostRecent ==
    LET s == endpoints_update_state
    IN  /\ s.running \in {None} \cup {Some(w) : w \in Whys}
        /\ s.want_update \in {None} \cup {Some(w) : w \in Whys}
        /\ s.want_update = re_stuns.asked
        /\ IsSome(s.want_update) => IsSome(s.running)

\* Two calls of re_stun with different reasons arrived while the refresh
\* started by a first call was marked running.
WantUpdateIsMostRecentWitness ==
    /\ re_stuns.calls = 3
    /\ re_stuns.refreshes = 0
    /\ IsSome(endpoints_update_state.running)
    /\ endpoints_update_state.want_update = Some("periodic")
    /\ endpoints_update_state.running # endpoints_update_state.want_update

\* C23: no refresh request is lost and none stampedes: a refresh that
\* completes on an open connection after re_stun requests arrived while it
\* was marked running marks exactly one further refresh running, with the
\* most recent of their reasons, and one that completes without such
\* requests marks none; every refresh marked running is then run, with the
\* reason it was marked with.
RefreshRequestsNotLost ==
    /\ [][LET s == endpoints_update_state
              completes == /\ endpoints_update_receiver
                           /\ IsSome(s.running)
                           /\ re_stuns'.refreshes = re_stuns.refreshes + 1
          IN  /\ completes =>
                     /\ refresh'.why = s.running
                     /\ endpoints_update_state'.want_update = None
                     /\ endpoints_update_state'.running =
                            IF ~closed THEN re_stuns.asked ELSE None
              /\ re_stuns'.refreshes # re_stuns.refreshes => completes
              /\ (re_stuns'.calls # re_stuns.calls /\ IsNone(s.running)) =>
                     /\ IsSome(endpoints_update_state'.running)
                     /\ endpoints_update_receiver']_vars
    /\ IsSome(endpoints_update_state.running) ~> IsNone(endpoints_update_state.running)

\* A refresh was run for a reason remembered while the refresh before it
\* was marked running, and a further one is marked running the same way.
RefreshRequestsNotLostWitness ==
    /\ re_stuns.refreshes = 2
    /\ re_stuns.by = "update_endpoints"
    /\ IsSome(endpoints_update_state.running)
    /\ refresh.why # endpoints_update_state.running
    /\ ~closed

\* C24: EnqueueCallMeMaybe{relay_addr, endpoint_id} handled for a known
\* endpoint while the local endpoints are stale sends no CallMeMaybe and
\* schedules a STUN refresh, and when that refresh has completed an
\* EnqueueCallMeMaybe for the same relay_addr and endpoint_id is posted back
\* to the coordinator.
StaleCallMeMaybeIsRequeued ==
    [][/\ (/\ out'.op = "EnqueueCallMeMaybe"
           /\ on_endpoint_refreshed' # on_endpoint_refreshed) =>
              /\ last_endpoints_time # "fresh"
              /\ spawned' = spawned
              /\ out'.sent = <<>>
              /\ actor' = "enqueue_send"
       /\ \A task \in spawned \ spawned' :
              task.kind = "refreshed" =>
                  \E i \in DOMAIN actor_q' :
                      actor_q'[i] = [kind |-> "EnqueueCallMeMaybe", from |-> 0,
                                     derp_addr |-> task.f.derp_addr,
                                     endpoint_id |-> task.f.endpoint_id]]_vars

\* C25: CallMeMaybe is sent only over the relay: every CallMeMaybe the
\* coordinator emits is addressed to a relay address (DERP_MAGIC_IP,
\* region) and handed to the relay worker, never to a UDP socket.
CallMeMaybeOnlyOverRelay ==
    \A i \in DOMAIN out.sent :
        out.sent[i].msg.kind = "call_me_maybe" =>
            /\ out.sent[i].via = "derp"
            /\ out.sent[i].dst.ip = DERP_MAGIC_IP
            /\ out.sent[i].dst \in DerpAddrs

\* The coordinator emitted a CallMeMaybe that lists a recorded endpoint.
CallMeMaybeOnlyOverRelayWitness ==
    /\ out.op = "SendDiscoMessage"
    /\ \E i \in DOMAIN out.sent :
           /\ out.sent[i].msg.kind = "call_me_maybe"
           /\ out.sent[i].msg.my_number # {}
           /\ out.sent[i].ok

\* C26: the step that handles, on the open connection, a Ping whose box
\* opens and which the endpoint of its peer reports as a duplicate (its
\* transaction id is the one recorded for its source address) leaves the
\* by-(ip,port) index and the endpoints' records as they were and sends
\* nothing: no Pong.  (A step that neither stores the closed flag nor takes
\* from the relay worker's queue is a step of a handler.)
DuplicatePingDropped ==
    [][LET d == Unwrap(out'.disco)
           dst_key == IF IsSome(d.derp_node_src) THEN Unwrap(d.derp_node_src) ELSE d.source
           found == endpoint_for_node_key(peer_map, dst_key)
           duplicate ==
               /\ IsSome(found)
               /\ d.src \in DOMAIN peer_map.by_id[Unwrap(found)].endpoint_state
               /\ peer_map.by_id[Unwrap(found)].endpoint_state[d.src]
                      = Some(d.sealed_box.msg.tx_id)
       IN  (/\ out'.op \in {"Disco", "ReceiveDerp"}
            /\ IsSome(out'.disco)
            /\ ~closed /\ ~closed' /\ derp_q' >= derp_q
            /\ d.sealed_box.opens /\ d.sealed_box.parses
            /\ d.sealed_box.msg.kind = "ping"
            /\ duplicate) =>
               /\ peer_map'.by_ip_port = peer_map.by_ip_port
               /\ peer_map'.by_id[Unwrap(found)] = peer_map.by_id[Unwrap(found)]
               /\ out'.sent = <<>>]_vars

\* A Ping was handled on the open connection and nothing was sent for it:
\* its transaction id is the one the peer's endpoint has recorded for its
\* source address.
DuplicatePingDroppedWitness ==
    /\ out.op = "Disco" /\ IsSome(out.disco) /\ ~closed
    /\ Unwrap(out.disco).sealed_box.opens /\ Unwrap(out.disco).sealed_box.parses
    /\ Unwrap(out.disco).sealed_box.msg.kind = "ping"
    /\ out.sent = <<>>
    /\ LET d == Unwrap(out.disco)
           found == endpoint_for_node_key(peer_map, d.source)
       IN  /\ IsSome(found)
           /\ d.src \in DOMAIN peer_map.by_id[Unwrap(found)].endpoint_state
           /\ peer_map.by_id[Unwrap(found)].endpoint_state[d.src]
                  = Some(d.sealed_box.msg.tx_id)
           /\ endpoint_for_ip_port(peer_map, d.src) = found

\* C27: when SetNetworkMap with a peer list that differs from the stored
\* one has been handled on the open connection, the public keys that have
\* an endpoint in the peer table are the keys named in the new network map.
PeerTableMatchesNetworkMap ==
    [][(/\ ~closed
        /\ out'.op = "SetNetworkMap"
        /\ net_map' # net_map
        /\ IsSome(net_map')
        /\ ~SamePeers(net_map, Unwrap(net_map'))) =>
           KeysOf(peer_map') =
               {Unwrap(net_map').peers[i].key : i \in DOMAIN Unwrap(net_map').peers}]_vars

\* C28: a step that adds an endpoint to the peer table adds it for a key
\* that had none, with a freshly generated mapped address, and is one of:
\* SetNetworkMap on the open connection naming that key; a discovery Ping
\* whose box opens and parses, from that key as an unknown sender (no
\* endpoint for the key nor for the source address), on the open
\* connection; a non-empty relay frame.  Pong, CallMeMaybe, boxes that do
\* not open or parse, UDP datagrams passed through and empty relay frames
\* add none.
EndpointsOnlyFromThreeEvents ==
    [][\A id \in DOMAIN peer_map'.by_id \ DOMAIN peer_map.by_id :
          LET ep == peer_map'.by_id[id]
              k == ep.public_key
              d == Unwrap(out'.disco)
              ping_from_unknown ==
                  /\ IsSome(out'.disco)
                  /\ ~closed
                  /\ d.sealed_box.opens /\ d.sealed_box.parses
                  /\ d.sealed_box.msg.kind = "ping"
                  /\ d.source = k
                  /\ UnknownSender(peer_map, k, d.src)
          IN  /\ IsNone(endpoint_for_node_key(peer_map, k))
              /\ \A i \in DOMAIN allocated : allocated[i] # ep.quic_mapped_addr
              /\ \E i \in DOMAIN allocated' : allocated'[i] = ep.quic_mapped_addr
              /\ \/ /\ out'.op = "SetNetworkMap"
                    /\ ~closed
                    /\ \E i \in DOMAIN Unwrap(net_map').peers :
                           Unwrap(net_map').peers[i].key = k
                 \/ /\ out'.op = "Disco"
                    /\ ping_from_unknown
                 \/ /\ out'.op = "ReceiveDerp"
                    /\ out'.enq # <<>> \/ IsSome(out'.disco)
                    /\ \/ ping_from_unknown
                       \/ IsSome(out'.disco) => d.derp_node_src = Some(k)]_vars

\* The peer table holds two endpoints and no network map was ever stored:
\* one endpoint came from a Ping or a relay frame, and the last step, a relay
\* frame without a discovery packet, added the other.
EndpointsOnlyFromThreeEventsWitness ==
    /\ IsNone(net_map)
    /\ node_count(peer_map) = 2
    /\ out.op = "ReceiveDerp" /\ IsNone(out.disco) /\ out.enq # <<>>
    /\ peer_map.next_id - 1 \in DOMAIN peer_map.by_id
    /\ peer_map.by_id[peer_map.next_id - 1].derp_addr # None
    /\ \E id \in DOMAIN peer_map.by_id : peer_map.by_id[id].derp_addr = None

\* C29: the step in which the coordinator takes a batch from the transmit
\* queue whose destination resolves to an endpoint sends it on exactly the
\* paths the endpoint selected (out.disco holds the selection): first to
\* the UDP address if one was selected, then to the relay region, for the
\* endpoint's key, if one was selected, also when the UDP send failed; and
\* nowhere when no path was selected or the selection failed.
BatchSentOnSelectedPaths ==
    [][(/\ network_q # <<>>
        /\ network_q' = Tail(network_q)
        /\ out'.op = "SendNetwork"
        /\ IsSome(endpoint_for_quic_mapped_addr(peer_map, DestAddr(Head(network_q)[1])))) =>
           LET r == Unwrap(out'.disco)
               s == out'.sent
               id == Unwrap(endpoint_for_quic_mapped_addr(peer_map,
                                                          DestAddr(Head(network_q)[1])))
               n == (IF IsSome(r.udp_addr) THEN 1 ELSE 0)
                      + (IF IsSome(r.derp_addr) THEN 1 ELSE 0)
           IN  IF ~r.ok THEN s = <<>>
               ELSE /\ Len(s) = n
                    /\ IsSome(r.udp_addr) =>
                           /\ s[1].via = "udp"
                           /\ s[1].dst = Unwrap(r.udp_addr)
                           /\ s[1].msg = Contents(Head(network_q))
                    /\ IsSome(r.derp_addr) =>
                           /\ s[n].via = "derp"
                           /\ s[n].dst = Unwrap(r.derp_addr)
                           /\ s[n].key = Some(peer_map.by_id[id].public_key)
                           /\ s[n].msg = Contents(Head(network_q))]_vars

\* A batch went to both paths: the UDP send failed and the relay send was
\* issued and accepted by the relay worker's queue.
BatchSentOnSelectedPathsWitness ==
    /\ out.op = "SendNetwork" /\ IsSome(out.disco)
    /\ Len(out.sent) = 2
    /\ out.sent[1].via = "udp" /\ ~out.sent[1].ok
    /\ out.sent[2].via = "derp" /\ out.sent[2].ok

\* C30: no wake-up is lost on the receive side: no state is reachable in
\* which the receive queue is non-empty, poll_recv has stored its waker
\* and returned Pending, the receiver has not been woken, and the
\* coordinator is not in a step that will wake it (on the open connection).
NoLostReceiveWake ==
    ~(/\ network_recv_ch # <<>>
      /\ IsSome(network_recv_wakers)
      /\ pr.pc = "done" /\ pr.res = "Pending"
      /\ ~recv_woken
      /\ actor = "run"
      /\ ~closed)

\* C31: the coordinator never blocks forever while handling one message:
\* the handler of EnqueueCallMeMaybe that has reached its send of ReStun to
\* the coordinator's own command queue completes it and the coordinator
\* returns to its loop, also when that queue is full.
SelfSendCompletes ==
    (actor = "enqueue_send") ~> (actor = "run")

\* C32: the assertions of handle_ping never fail: no Ping reaches
\* handle_ping with the relay magic ip as its arrival address and no relay
\* source key, or with a relay source key and another arrival address; the
\* coordinator never panics.
HandlePingAssertionsHold ==
    actor # "panicked"

\* C33: while the connection is open, a poll_recv call that has removed Ok
\* datagrams from the receive queue reports them in its count: a call that
\* returned an error or Pending while the closed flag was not set had
\* removed no Ok datagram.
TakenDatagramsReported ==
    (/\ pr.pc = "done"
     /\ ~closed
     /\ \A c \in Closers : close[c].pc = "idle"
     /\ pr.res \in {"Err", "Pending", "NotConnected"}) =>
        pr.num = 0

\* C34: the step that handles, on the open connection, a discovery packet
\* whose box does not open, or opens and does not parse, counts it
\* (RecvDiscoBadKey, RecvDiscoBadParse), sends nothing, puts nothing into
\* the receive queue and leaves every endpoint and index entry as it was;
\* for a relay frame the only change of the peer table is the endpoint
\* process_derp_read_result inserts, before the handler is called, for an
\* unknown source key of the frame.
BadDiscoPayloadDropped ==
    [][LET d == Unwrap(out'.disco)
       IN  (/\ out'.op \in {"Disco", "ReceiveDerp"}
            /\ IsSome(out'.disco)
            /\ ~closed /\ ~closed' /\ derp_q' >= derp_q
            /\ ~(d.sealed_box.opens /\ d.sealed_box.parses)) =>
               /\ (IF d.sealed_box.opens THEN "RecvDiscoBadParse" ELSE "RecvDiscoBadKey")
                     \in out'.inc
               /\ out'.sent = <<>>
               /\ out'.enq = <<>>
               /\ out'.probes = {}
               /\ \A id \in DOMAIN peer_map.by_id :
                      /\ id \in DOMAIN peer_map'.by_id
                      /\ peer_map'.by_id[id] = peer_map.by_id[id]
               /\ IF out'.op = "Disco" THEN peer_map' = peer_map
                  ELSE \A id \in DOMAIN peer_map'.by_id \ DOMAIN peer_map.by_id :
                          Some(peer_map'.by_id[id].public_key) = d.derp_node_src]_vars

\* A packet whose box opened and did not parse was counted and dropped
\* while the peer table held an endpoint.
BadDiscoPayloadDroppedWitness ==
    /\ out.op = "Disco" /\ IsSome(out.disco) /\ ~closed
    /\ Unwrap(out.disco).sealed_box.opens /\ ~Unwrap(out.disco).sealed_box.parses
    /\ "RecvDiscoBadParse" \in out.inc
    /\ out.sent = <<>>
    /\ node_count(peer_map) > 0

\* C35: a handler of the coordinator hands a message to the relay worker
\* with a try-send: the messages it reports as accepted are exactly those
\* added to the worker's queue, which never holds more than its capacity;
\* a message that finds the queue full is dropped, the queue stays as it
\* is and the coordinator goes on running.
RelaySendNeverBlocks ==
    [][LET derp == {i \in DOMAIN out'.sent : out'.sent[i].via = "derp"}
           accepted == {i \in derp : out'.sent[i].ok}
       IN  (closed' = closed /\ derp_q' >= derp_q /\ actor = "run") =>
               /\ derp_q' = derp_q + Cardinality(accepted)
               /\ derp_q' <= DerpCap
               /\ (derp # accepted) => (derp_q' = DerpCap /\ actor' = "run")]_vars

\* A handler found the relay worker's queue full and dropped a message.
RelaySendNeverBlocksWitness ==
    /\ \E i \in DOMAIN out.sent : out.sent[i].via = "derp" /\ ~out.sent[i].ok
    /\ derp_q = DerpCap
    /\ actor = "run"

\* C36: once the netcheck report of a refresh has said that IPv4 cannot
\* send (no_v4_send is set by a refresh that did not rebind) on the open
\* connection, and a refresh is marked running or the timer can still ask
\* for one, a further refresh runs that calls rebind_all and after it
\* determine_endpoints, unless the connection is closed first; and every
\* refresh that starts with the flag set on the open connection makes
\* these two calls in this order.
SendErrorReportRebinds ==
    /\ ( /\ no_v4_send /\ ~closed /\ refresh.steps = <<"determine_endpoints">>
         /\ (re_stuns.calls < MaxReStuns \/ IsSome(endpoints_update_state.running)))
       ~> (closed \/ refresh.steps = <<"rebind_all", "determine_endpoints">>)
    /\ [][(no_v4_send /\ ~closed /\ re_stuns'.refreshes # re_stuns.refreshes) =>
              /\ refresh'.steps = <<"rebind_all", "determine_endpoints">>
              /\ "RebindCalls" \in out'.inc]_vars

\* A refresh of the open connection has rebound the sockets and then
\* determined the endpoints, after a report of a refresh before it.
SendErrorReportRebindsWitness ==
    /\ refresh.done /\ ~closed
    /\ refresh.steps = <<"rebind_all", "determine_endpoints">>
    /\ re_stuns.refreshes >= 2
    /\ out.op = "UpdateEndpoints" /\ "RebindCalls" \in out.inc

\* C37: calls of pick_derp_fallback with the same relay map and the same
\* home region return the same region; the region is 0 without a relay map
\* and for a map without regions, the home region when that is not 0, and
\* otherwise a region of the map, the one the generator seeded with 0
\* chooses.
DerpFallbackDeterministic ==
    /\ \A i, j \in DOMAIN picked :
           (picked[i].derp_map = picked[j].derp_map /\ picked[i].my_derp = picked[j].my_derp)
               => picked[i].region = picked[j].region
    /\ \A i \in DOMAIN picked :
           LET p == picked[i]
           IN  IF IsNone(p.derp_map) \/ p.derp_map = Some(<<>>) THEN p.region = 0
               ELSE IF p.my_derp # 0 THEN p.region = p.my_derp
               ELSE /\ \E k \in DOMAIN Unwrap(p.derp_map) : Unwrap(p.derp_map)[k] = p.region
                    /\ p.region = choose(Unwrap(p.derp_map), seed_from_u64(0))

\* Two calls without a home region on one map of two regions chose the
\* same region of it.
DerpFallbackDeterministicWitness ==
    /\ Len(picked) = 2
    /\ picked[1].derp_map = picked[2].derp_map
    /\ IsSome(picked[1].derp_map) /\ Len(Unwrap(picked[1].derp_map)) = 2
    /\ picked[1].my_derp = 0 /\ picked[2].my_derp = 0
    /\ picked[1].region = picked[2].region
    /\ picked[1].region # 0

\* The place of an endpoint type in the order of the list.
EndpointRank(typ) ==
    CASE typ = "Portmapped" -> 1
      [] typ \in {"Stun", "Stun4LocalPort"} -> 2
      [] OTHER -> 3

\* C38: the list determine_endpoints returns names no address twice; the
\* port-mapped address comes before the STUN addresses and these before
\* the local ones; the variant of the global IPv4 address with the
\* preferred port is there only when the mapping varies by destination
\* and the preferred port is not 0; an address of a loopback interface is
\* there only when there is no regular interface address and nothing was
\* added before the interface addresses.
LocalEndpointSetOrdered ==
    IsSome(determined) =>
        LET in == Unwrap(determined).in
            eps == Unwrap(determined).eps
        IN  /\ \A i, j \in DOMAIN eps : i # j => eps[i].addr # eps[j].addr
            /\ \A i, j \in DOMAIN eps :
                   i < j => EndpointRank(eps[i].typ) <= EndpointRank(eps[j].typ)
            /\ \A i \in DOMAIN eps :
                   /\ eps[i].typ = "Stun4LocalPort" =>
                          /\ in.mapping_varies_by_dest_ip = Some(TRUE)
                          /\ in.port # 0
                          /\ IsSome(in.global_v4)
                          /\ eps[i].addr = [Unwrap(in.global_v4) EXCEPT !.port = in.port]
                   /\ eps[i].addr.ip \in LoopbackIps =>
                          /\ eps[i].typ = "Local"
                          /\ in.regular = <<>>
                          /\ \A j \in 1..(i - 1) : eps[j].addr.ip \in LoopbackIps

\* A list with the port-mapped address, the STUN address it differs from,
\* the variant with the preferred port and a local address.
LocalEndpointSetOrderedWitness ==
    /\ IsSome(determined)
    /\ LET eps == Unwrap(determined).eps
           in == Unwrap(determined).in
       IN  /\ Len(eps) = 4
           /\ eps[1].typ = "Portmapped" /\ eps[2].typ = "Stun"
           /\ eps[3].typ = "Stun4LocalPort" /\ eps[4].typ = "Local"
           /\ in.global_v6 = None

\* C39: a step of the coordinator derives a shared secret only for a key
\* that has no DiscoInfo, and for no key twice; a DiscoInfo once made stays
\* in the map with its shared key.  Hence the secret for a key is computed
\* at most once.
SharedSecretComputedOnce ==
    [][/\ \A k \in DOMAIN disco_info :
              /\ k \in DOMAIN disco_info'
              /\ disco_info'[k].shared_key = disco_info[k].shared_key
       /\ (disco_info' # disco_info \/ (out' # out /\ derp_q' >= derp_q)) =>
              /\ \A i \in DOMAIN out'.derived : out'.derived[i] \notin DOMAIN disco_info
              /\ \A i, j \in DOMAIN out'.derived :
                     i # j => out'.derived[i] # out'.derived[j]]_vars

\* A discovery packet was handled for a key whose secret had been derived
\* by an earlier step, and no secret was derived again.
SharedSecretComputedOnceWitness ==
    /\ out.op = "Disco" /\ IsSome(out.disco)
    /\ Unwrap(out.disco).source \in DOMAIN disco_info
    /\ out.derived = <<>>
    /\ out.sent # <<>>

\* C40: bind called with a preferred port p above 0 asks the IPv6 socket
\* for the port p + 1, a port between 1 and 65535, and does not panic;
\* called with 0 it asks both sockets for port 0.
Ipv6PortIsNextPort ==
    IsSome(bound) =>
        LET b == Unwrap(bound)
        IN  IF b.port = 0 THEN ~b.panicked /\ b.v6 = Some(0) /\ b.v4 = Some(0)
            ELSE /\ ~b.panicked
                 /\ b.v6 = Some(b.port + 1)
                 /\ b.port + 1 \in 1..U16Max

====
